---- MODULE Spec2Model ----
(***************************************************************************)
(* Model of the UI contrast audit (ui_contrast_audit.py) and of its report *)
(* (report.py).                                                            *)
(*                                                                         *)
(* Several state machines share this module.                               *)
(*   Spec / SpecLong : the element loop of scan_url, which merges the      *)
(*                     records of the scanned elements into style tokens.  *)
(*   SpecReport      : the analysis functions of report.py and the rollup  *)
(*                     of summarize, applied to contrast data.             *)
(*   SpecSim         : the colour functions of ui_contrast_audit.py, as a  *)
(*                     sequence of calls that share the simulation cache.  *)
(*   SpecScan        : scan_url from its first element to its return: the  *)
(*                     element loop, then the contrasts of the tokens.     *)
(*   SpecMain        : main of ui_contrast_audit.py, the loop over the     *)
(*                     sites, and the report of the document it saves.     *)
(*                                                                         *)
(* Encoding of Python values.                                              *)
(*   None            : the string None below, for string-valued fields.    *)
(*   contrast ratio  : an integer number of hundredths (4.5 is 450); the   *)
(*                     ratios of the program are rounded to 2 decimals.    *)
(*   channel dict    : a function from a subset of CVD_TYPES to ratios; a  *)
(*                     key that is missing or holds None is left out of    *)
(*                     the domain, and the channel that is None (or {})    *)
(*                     is the function with the empty domain. Every reader *)
(*                     of a channel in the program tests "not c" first and *)
(*                     reads entries with .get(k), so these cases are not  *)
(*                     told apart by the code either.                      *)
(*   cvi             : an integer number of thousandths.                   *)
(***************************************************************************)
EXTENDS Integers, Sequences, FiniteSets, TLC

VARIABLES
    scanned,                \* scan_url: the elements loc.nth(0..i-1) processed so far
    groups,                 \* scan_url: dict key -> token, in insertion order
    category_counts,        \* scan_url: defaultdict(int)
    kept,                   \* scan_url: elements kept
    error_state_captured,   \* scan_url: error-state records ingested
    call,                   \* the function applied last and its arguments
    ret,                    \* the value it returned
    _CVD_CACHE,             \* simulate_rgb: (rgb, deficiency) -> simulated rgb
    invocations,            \* the calls of the simulator so far, per key of the cache
    simulator,              \* the simulator this run uses
    pc,                     \* scan_url: in the element loop, in the contrast loop, returned
    contrast_calls,         \* scan_url: the tokens handed to compute_group_contrasts so far
    contrast_turn,          \* scan_url: the turns of the loop over group_list so far
    urls,                   \* main: the list of urls, each with what the browser finds there
    visited,                \* main: the urls whose turn of the loop stored an entry
    output,                 \* main: output["sites"], in insertion order
    main_pc,                \* main: loop, interrupted, saved, raised; report.py: reported,
                            \* report_failed
    json_file               \* cvd_ui_contrast_audit.json: not written, cut short, or whole

vars == <<scanned, groups, category_counts, kept, error_state_captured, call, ret,
          _CVD_CACHE, invocations, simulator,
          pc, contrast_calls, contrast_turn, urls, visited, output, main_pc, json_file>>

scanVars == <<scanned, groups, category_counts, kept, error_state_captured>>
reportVars == <<call, ret>>
simVars == <<_CVD_CACHE, invocations, simulator>>
auditVars == <<pc, contrast_calls, contrast_turn>>
mainVars == <<urls, visited, output, main_pc, json_file>>

(***************************************************************************)
(* Bounds of the model.                                                    *)
(***************************************************************************)
MaxElements == 3        \* elements scanned in a run of Spec
MaxLongElements == 12   \* elements scanned in a run of SpecLong
MaxGroups == 3          \* tokens of a site handed to compute_cvi

(***************************************************************************)
(* Python values.                                                          *)
(***************************************************************************)
None == "None"

Truthy(v) == v # None /\ v # ""

\* a or b
Or(a, b) == IF Truthy(a) THEN a ELSE b

\* str.lower() on the tag and role names that occur
lower(s) ==
    CASE s = "BUTTON" -> "button"
      [] s = "A" -> "a"
      [] s = "INPUT" -> "input"
      [] s = "SELECT" -> "select"
      [] s = "TEXTAREA" -> "textarea"
      [] s = "DIV" -> "div"
      [] s = "SPAN" -> "span"
      [] s = "LI" -> "li"
      [] s = "IMG" -> "img"
      [] s = "SVG" -> "svg"
      [] s = "SUMMARY" -> "summary"
      [] s = "LABEL" -> "label"
      [] s = "TD" -> "td"
      [] s = "TH" -> "th"
      [] s = "H2" -> "h2"
      [] s = "P" -> "p"
      [] s = "NAV" -> "nav"
      [] s = "SECTION" -> "section"
      [] s = "ARTICLE" -> "article"
      [] s = "Button" -> "button"
      [] OTHER -> s

(***************************************************************************)
(* ui_contrast_audit.py: classification and grouping helpers.              *)
(***************************************************************************)
classify(tag, role) ==
    LET t == lower(Or(tag, ""))
        r == lower(Or(role, ""))
    IN  CASE t = "button" -> "button"
          [] t = "a" -> "link"
          [] t \in {"input", "select", "textarea"} -> "input"
          [] OTHER ->
                IF r \in {"button", "link", "textbox", "tab", "checkbox", "radio"}
                THEN r
                ELSE "interactive_other"

\* "|".join(parts)
RECURSIVE join(_)
join(parts) ==
    IF Len(parts) = 0 THEN ""
    ELSE IF Len(parts) = 1 THEN parts[1]
    ELSE parts[1] \o "|" \o join(Tail(parts))

style_key_no_outline_style(layer, category, state, data) ==
    join(<<layer, category, state,
           data.textColor, data.backgroundColor, data.fontSize, data.fontWeight,
           data.textDecoration, data.borderColor, data.borderWidth, data.borderStyle,
           data.outlineColor, data.outlineWidth>>)

style_key(layer, category, state, data) ==
    join(<<layer, category, state,
           data.textColor, data.backgroundColor, data.fontSize, data.fontWeight,
           data.textDecoration, data.borderColor, data.borderWidth, data.borderStyle,
           data.outlineColor, data.outlineWidth, data.outlineStyle>>)

InList(items, value) == \E j \in 1..Len(items) : items[j] = value

_append_unique_no_limit(items, value, limit) ==
    IF Truthy(value) /\ ~InList(items, value)
    THEN Append(items, value)
    ELSE items

_append_unique(items, value, limit) ==
    IF Truthy(value) /\ ~InList(items, value) /\ Len(items) < limit
    THEN Append(items, value)
    ELSE items

_init_group_counters_unseeded(layer, state, category, data) ==
    [ layer |-> layer,
      state |-> state,
      category |-> category,
      textColor |-> data.textColor,
      backgroundColor |-> data.backgroundColor,
      bgResolvedDepth |-> data.bgResolvedDepth,
      fontSize |-> data.fontSize,
      fontWeight |-> data.fontWeight,
      textDecoration |-> data.textDecoration,
      borderColor |-> data.borderColor,
      borderWidth |-> data.borderWidth,
      borderStyle |-> data.borderStyle,
      outlineColor |-> data.outlineColor,
      outlineWidth |-> data.outlineWidth,
      outlineStyle |-> data.outlineStyle,
      count |-> 1,
      sampleLabels |-> <<data.label>>,
      sampleTags |-> <<data.tag>>,
      sampleRoles |-> IF Truthy(data.role) THEN <<data.role>> ELSE <<>>,
      a11y |-> [ required_examples |-> 0, aria_invalid_examples |-> 0 ] ]

_init_group(layer, state, category, data) ==
    [ layer |-> layer,
      state |-> state,
      category |-> category,
      textColor |-> data.textColor,
      backgroundColor |-> data.backgroundColor,
      bgResolvedDepth |-> data.bgResolvedDepth,
      fontSize |-> data.fontSize,
      fontWeight |-> data.fontWeight,
      textDecoration |-> data.textDecoration,
      borderColor |-> data.borderColor,
      borderWidth |-> data.borderWidth,
      borderStyle |-> data.borderStyle,
      outlineColor |-> data.outlineColor,
      outlineWidth |-> data.outlineWidth,
      outlineStyle |-> data.outlineStyle,
      count |-> 1,
      sampleLabels |-> <<data.label>>,
      sampleTags |-> <<data.tag>>,
      sampleRoles |-> IF Truthy(data.role) THEN <<data.role>> ELSE <<>>,
      a11y |-> [ required_examples |-> IF data.required THEN 1 ELSE 0,
                 aria_invalid_examples |-> IF Truthy(data.ariaInvalid) THEN 1 ELSE 0 ] ]

\* _update_group that also takes bgResolvedDepth from the record
_update_group_depth_refreshed(group, data) ==
    [ group EXCEPT
        !.count = @ + 1,
        !.bgResolvedDepth = data.bgResolvedDepth,
        !.sampleLabels = _append_unique(@, data.label, 5),
        !.sampleTags = _append_unique(@, data.tag, 10),
        !.sampleRoles = _append_unique(@, data.role, 10),
        !.a11y = [ required_examples |->
                       IF data.required THEN @.required_examples + 1
                       ELSE @.required_examples,
                   aria_invalid_examples |->
                       IF Truthy(data.ariaInvalid) THEN @.aria_invalid_examples + 1
                       ELSE @.aria_invalid_examples ] ]

\* _update_group that leaves the count as it is
_update_group_count_untouched(group, data) ==
    [ group EXCEPT
        !.sampleLabels = _append_unique(@, data.label, 5),
        !.sampleTags = _append_unique(@, data.tag, 10),
        !.sampleRoles = _append_unique(@, data.role, 10),
        !.a11y = [ required_examples |->
                       IF data.required THEN @.required_examples + 1
                       ELSE @.required_examples,
                   aria_invalid_examples |->
                       IF Truthy(data.ariaInvalid) THEN @.aria_invalid_examples + 1
                       ELSE @.aria_invalid_examples ] ]

_update_group_labels_untouched(group, data) ==
    [ group EXCEPT
        !.count = @ + 1,
        !.sampleTags = _append_unique(@, data.tag, 10),
        !.sampleRoles = _append_unique(@, data.role, 10),
        !.a11y = [ required_examples |->
                       IF data.required THEN @.required_examples + 1
                       ELSE @.required_examples,
                   aria_invalid_examples |->
                       IF Truthy(data.ariaInvalid) THEN @.aria_invalid_examples + 1
                       ELSE @.aria_invalid_examples ] ]

_update_group(group, data) ==
    [ group EXCEPT
        !.count = @ + 1,
        !.sampleLabels = _append_unique(@, data.label, 5),
        !.sampleTags = _append_unique(@, data.tag, 10),
        !.sampleRoles = _append_unique(@, data.role, 10),
        !.a11y = [ required_examples |->
                       IF data.required THEN @.required_examples + 1
                       ELSE @.required_examples,
                   aria_invalid_examples |->
                       IF Truthy(data.ariaInvalid) THEN @.aria_invalid_examples + 1
                       ELSE @.aria_invalid_examples ] ]

(***************************************************************************)
(* The dict groups: a sequence of entries [k, g] in insertion order.       *)
(***************************************************************************)
HasKey(gs, k) == \E j \in 1..Len(gs) : gs[j].k = k

IndexOf(gs, k) == CHOOSE j \in 1..Len(gs) : gs[j].k = k

\* maybe_trigger_error_state: False only when both the click and the focus fail
maybe_trigger_error_state(el) == el.click \/ el.focus

\* the loop body that keeps the error-state record even when nothing changed
scan_iteration_error_always_kept(st, el) ==
    IF el.visible # "true" THEN st
    ELSE IF ~el.extract THEN st
    ELSE IF ~Truthy(el.base.label) THEN st
    ELSE
    LET base == el.base
        category == classify(base.tag, base.role)
        cc1 == IF category \in DOMAIN st.category_counts
               THEN [st.category_counts EXCEPT ![category] = @ + 1]
               ELSE st.category_counts @@ (category :> 1)
        k_base == style_key("interactive", category, "base", base)
        g1 == IF ~HasKey(st.groups, k_base)
              THEN Append(st.groups,
                          [k |-> k_base,
                           g |-> _init_group("interactive", "base", category, base)])
              ELSE [st.groups EXCEPT ![IndexOf(st.groups, k_base)].g =
                                        _update_group(@, base)]
        st1 == [st EXCEPT !.kept = @ + 1, !.category_counts = cc1, !.groups = g1]
        is_form_field == base.tag \in {"INPUT", "SELECT", "TEXTAREA"}
                         \/ base.role = "textbox"
        err == el.err
        k_err == style_key("interactive", category, "error", err)
        err_group0 == _init_group("interactive", "error", category, err)
        err_group == IF ~Truthy(err_group0.sampleLabels[1])
                     THEN [err_group0 EXCEPT !.sampleLabels[1] = base.label]
                     ELSE err_group0
        err_data == [err EXCEPT !.label = Or(err.label, base.label)]
        g2 == IF ~HasKey(g1, k_err)
              THEN Append(g1, [k |-> k_err, g |-> err_group])
              ELSE [g1 EXCEPT ![IndexOf(g1, k_err)].g = _update_group(@, err_data)]
    IN  IF ~is_form_field THEN st1
        ELSE IF ~maybe_trigger_error_state(el) THEN st1
        ELSE IF ~el.reextract THEN st1
        ELSE [st1 EXCEPT !.error_state_captured = @ + 1, !.groups = g2]

(***************************************************************************)
(* scan_url: one iteration of the loop over the matched elements.          *)
(* st holds the loop's variables; el holds what the browser answers for    *)
(* the element: is_visible(), the two evaluate(EXTRACT_JS) calls and the   *)
(* click/focus of maybe_trigger_error_state.                               *)
(***************************************************************************)
scan_iteration(st, el) ==
    IF el.visible # "true" THEN st
    ELSE IF ~el.extract THEN st
    ELSE IF ~Truthy(el.base.label) THEN st
    ELSE
    LET base == el.base
        category == classify(base.tag, base.role)
        cc1 == IF category \in DOMAIN st.category_counts
               THEN [st.category_counts EXCEPT ![category] = @ + 1]
               ELSE st.category_counts @@ (category :> 1)
        k_base == style_key("interactive", category, "base", base)
        g1 == IF ~HasKey(st.groups, k_base)
              THEN Append(st.groups,
                          [k |-> k_base,
                           g |-> _init_group("interactive", "base", category, base)])
              ELSE [st.groups EXCEPT ![IndexOf(st.groups, k_base)].g =
                                        _update_group(@, base)]
        st1 == [st EXCEPT !.kept = @ + 1, !.category_counts = cc1, !.groups = g1]
        is_form_field == base.tag \in {"INPUT", "SELECT", "TEXTAREA"}
                         \/ base.role = "textbox"
        err == el.err
        changed == \/ Truthy(err.borderColor) /\ err.borderColor # base.borderColor
                   \/ Truthy(err.outlineColor) /\ err.outlineColor # base.outlineColor
                   \/ Truthy(err.ariaInvalid) /\ err.ariaInvalid # base.ariaInvalid
        k_err == style_key("interactive", category, "error", err)
        err_group0 == _init_group("interactive", "error", category, err)
        err_group == IF ~Truthy(err_group0.sampleLabels[1])
                     THEN [err_group0 EXCEPT !.sampleLabels[1] = base.label]
                     ELSE err_group0
        err_data == [err EXCEPT !.label = Or(err.label, base.label)]
        g2 == IF ~HasKey(g1, k_err)
              THEN Append(g1, [k |-> k_err, g |-> err_group])
              ELSE [g1 EXCEPT ![IndexOf(g1, k_err)].g = _update_group(@, err_data)]
    IN  IF ~is_form_field THEN st1
        ELSE IF ~maybe_trigger_error_state(el) THEN st1
        ELSE IF ~el.reextract THEN st1
        ELSE IF ~changed THEN st1
        ELSE [st1 EXCEPT !.error_state_captured = @ + 1, !.groups = g2]

\* the loop's variables before the first iteration
scan_start ==
    [ groups |-> <<>>, category_counts |-> <<>>, kept |-> 0, error_state_captured |-> 0 ]

(***************************************************************************)
(* report.py: thresholds, worst case and failure classification.           *)
(***************************************************************************)
CVD_TYPES == << "normal", "protanopia", "deuteranopia", "tritanopia" >>

\* the ratio that is None
NoRatio == -1

\* float(font_size.replace("px", "").strip()), in hundredths of a pixel, for the
\* strings that parse; every other string raises and gives 0.0
PxTable ==
    ("16px" :> 1600) @@ ("24px" :> 2400) @@ ("18.67px" :> 1867) @@ ("18px" :> 1800)
    @@ ("18.66px" :> 1866) @@ ("23.99px" :> 2399) @@ ("14px" :> 1400) @@ ("32px" :> 3200)
    @@ (" 24 px " :> 2400) @@ ("24" :> 2400) @@ ("0px" :> 0)

\* int(float(font_weight)) for the strings that parse; every other string gives 400
WeightTable ==
    ("400" :> 400) @@ ("700" :> 700) @@ ("699" :> 699) @@ ("600" :> 600)
    @@ ("900" :> 900) @@ ("700.5" :> 700) @@ ("100" :> 100)

\* threshold_for_font without the size test for bold text
threshold_for_font_bold_any_size(font_size, font_weight) ==
    LET px == IF font_size \in DOMAIN PxTable THEN PxTable[font_size] ELSE 0
        weight == IF font_weight \in DOMAIN WeightTable THEN WeightTable[font_weight] ELSE 400
    IN  IF px >= 2400 \/ weight >= 700 THEN 300 ELSE 450

threshold_for_font(font_size, font_weight) ==
    LET px == IF font_size \in DOMAIN PxTable THEN PxTable[font_size] ELSE 0
        weight == IF font_weight \in DOMAIN WeightTable THEN WeightTable[font_weight] ELSE 400
    IN  IF px >= 2400 \/ (weight >= 700 /\ px >= 1867) THEN 300 ELSE 450

\* the loop of worst_case from the j-th vision type on
RECURSIVE worst_case_from(_, _, _, _)
worst_case_from(contrast_dict, j, best, best_k) ==
    IF j > Len(CVD_TYPES) THEN <<best, best_k>>
    ELSE LET k == CVD_TYPES[j]
         IN  IF k \notin DOMAIN contrast_dict
             THEN worst_case_from(contrast_dict, j + 1, best, best_k)
             ELSE LET v == contrast_dict[k]
                  IN  IF best = NoRatio \/ v < best
                      THEN worst_case_from(contrast_dict, j + 1, v, k)
                      ELSE worst_case_from(contrast_dict, j + 1, best, best_k)

RECURSIVE worst_case_last_from(_, _, _, _)
worst_case_last_from(contrast_dict, j, best, best_k) ==
    IF j > Len(CVD_TYPES) THEN <<best, best_k>>
    ELSE LET k == CVD_TYPES[j]
         IN  IF k \notin DOMAIN contrast_dict
             THEN worst_case_last_from(contrast_dict, j + 1, best, best_k)
             ELSE LET v == contrast_dict[k]
                  IN  IF best = NoRatio \/ v <= best
                      THEN worst_case_last_from(contrast_dict, j + 1, v, k)
                      ELSE worst_case_last_from(contrast_dict, j + 1, best, best_k)

worst_case_ties_to_last(contrast_dict) ==
    IF DOMAIN contrast_dict = {} THEN <<NoRatio, None>>
    ELSE worst_case_last_from(contrast_dict, 1, NoRatio, None)

worst_case_absent_as_zero(contrast_dict) ==
    IF DOMAIN contrast_dict = {} THEN <<0, "normal">>
    ELSE worst_case_from(contrast_dict, 1, NoRatio, None)

worst_case(contrast_dict) ==
    IF DOMAIN contrast_dict = {} THEN <<NoRatio, None>>
    ELSE worst_case_from(contrast_dict, 1, NoRatio, None)

\* (example.get("contrast") or {}).get(channel)
channel_of(contrast, channel) ==
    IF channel \in DOMAIN contrast THEN contrast[channel] ELSE <<>>

\* str() of a float with at most two decimals, given in hundredths
fmt(h) ==
    ToString(h \div 100) \o "."
    \o (IF h % 10 = 0 THEN ToString((h % 100) \div 10)
        ELSE (IF h % 100 < 10 THEN "0" ELSE "") \o ToString(h % 100))

\* f"{name}<{thr} (worst {worst} @ {k})"
reason(name, thr, worst, k) ==
    name \o "<" \o fmt(thr) \o " (worst " \o fmt(worst) \o " @ " \o k \o ")"

classify_failure_font_threshold_everywhere(example) ==
    LET font_thr == threshold_for_font(example.fontSize, example.fontWeight)
        text == worst_case(channel_of(example.contrast, "text_on_bg"))
        border == worst_case(channel_of(example.contrast, "border_on_bg"))
        outline == worst_case(channel_of(example.contrast, "outline_on_bg"))
        reasons ==
            (IF text[1] # NoRatio /\ text[1] < font_thr
             THEN <<reason("text", font_thr, text[1], text[2])>> ELSE <<>>)
            \o (IF border[1] # NoRatio /\ border[1] < font_thr
                THEN <<reason("border", font_thr, border[1], border[2])>> ELSE <<>>)
            \o (IF outline[1] # NoRatio /\ outline[1] < font_thr
                THEN <<reason("outline", font_thr, outline[1], outline[2])>> ELSE <<>>)
    IN  [ font_threshold |-> font_thr,
          text_worst |-> text[1], text_worst_type |-> text[2],
          border_worst |-> border[1], border_worst_type |-> border[2],
          outline_worst |-> outline[1], outline_worst_type |-> outline[2],
          reasons |-> reasons,
          is_vulnerable |-> Len(reasons) > 0 ]

classify_failure_outline_first(example) ==
    LET font_thr == threshold_for_font(example.fontSize, example.fontWeight)
        text == worst_case(channel_of(example.contrast, "text_on_bg"))
        border == worst_case(channel_of(example.contrast, "border_on_bg"))
        outline == worst_case(channel_of(example.contrast, "outline_on_bg"))
        reasons ==
            (IF outline[1] # NoRatio /\ outline[1] < 300
             THEN <<reason("outline", 300, outline[1], outline[2])>> ELSE <<>>)
            \o (IF text[1] # NoRatio /\ text[1] < font_thr
                THEN <<reason("text", font_thr, text[1], text[2])>> ELSE <<>>)
            \o (IF border[1] # NoRatio /\ border[1] < 300
                THEN <<reason("border", 300, border[1], border[2])>> ELSE <<>>)
    IN  [ font_threshold |-> font_thr,
          text_worst |-> text[1], text_worst_type |-> text[2],
          border_worst |-> border[1], border_worst_type |-> border[2],
          outline_worst |-> outline[1], outline_worst_type |-> outline[2],
          reasons |-> reasons,
          is_vulnerable |-> Len(reasons) > 0 ]

classify_failure(example) ==
    LET font_thr == threshold_for_font(example.fontSize, example.fontWeight)
        text == worst_case(channel_of(example.contrast, "text_on_bg"))
        border == worst_case(channel_of(example.contrast, "border_on_bg"))
        outline == worst_case(channel_of(example.contrast, "outline_on_bg"))
        reasons ==
            (IF text[1] # NoRatio /\ text[1] < font_thr
             THEN <<reason("text", font_thr, text[1], text[2])>> ELSE <<>>)
            \o (IF border[1] # NoRatio /\ border[1] < 300
                THEN <<reason("border", 300, border[1], border[2])>> ELSE <<>>)
            \o (IF outline[1] # NoRatio /\ outline[1] < 300
                THEN <<reason("outline", 300, outline[1], outline[2])>> ELSE <<>>)
    IN  [ font_threshold |-> font_thr,
          text_worst |-> text[1], text_worst_type |-> text[2],
          border_worst |-> border[1], border_worst_type |-> border[2],
          outline_worst |-> outline[1], outline_worst_type |-> outline[2],
          reasons |-> reasons,
          is_vulnerable |-> Len(reasons) > 0 ]

cvd_only_flag_normal_unchecked(example, channel, threshold) ==
    LET c == channel_of(example.contrast, channel)
    IN  IF DOMAIN c = {} THEN FALSE
        ELSE \E t \in {"protanopia", "deuteranopia", "tritanopia"} :
                 t \in DOMAIN c /\ c[t] < threshold

cvd_only_flag(example, channel, threshold) ==
    LET c == channel_of(example.contrast, channel)
    IN  IF DOMAIN c = {} THEN FALSE
        ELSE IF "normal" \notin DOMAIN c \/ c["normal"] < threshold THEN FALSE
        ELSE \E t \in {"protanopia", "deuteranopia", "tritanopia"} :
                 t \in DOMAIN c /\ c[t] < threshold

(***************************************************************************)
(* report.py: the Component Vulnerability Index.                           *)
(***************************************************************************)
\* the dict comprehensions of _collect_cvd_failures over the three CVD types
cvd_entries(c, thr, failing_only) ==
    LET keep == { t \in {"protanopia", "deuteranopia", "tritanopia"} :
                     t \in DOMAIN c /\ (failing_only => c[t] < thr) }
    IN  [ t \in keep |-> c[t] ]

\* one pass of the loop of _collect_cvd_failures
channel_failure(channel, c, thr) ==
    IF DOMAIN c = {} THEN <<>>
    ELSE IF "normal" \notin DOMAIN c \/ c["normal"] < thr THEN <<>>
    ELSE IF DOMAIN cvd_entries(c, thr, TRUE) = {} THEN <<>>
    ELSE << [ channel |-> channel,
              normal |-> c["normal"],
              threshold |-> thr,
              failing_cvd |-> cvd_entries(c, thr, TRUE),
              all_cvd |-> cvd_entries(c, thr, FALSE) ] >>

_collect_cvd_failures(contrast, font_thr) ==
    channel_failure("text", channel_of(contrast, "text_on_bg"), font_thr)
    \o channel_failure("border", channel_of(contrast, "border_on_bg"), 300)
    \o channel_failure("outline", channel_of(contrast, "outline_on_bg"), 300)

RECURSIVE gcd(_, _)
gcd(a, b) == IF b = 0 THEN a ELSE gcd(b, a % b)

\* d without its factors 2, and the number of these factors
RECURSIVE odd_part(_)
odd_part(d) == IF d % 2 = 0 THEN odd_part(d \div 2) ELSE d

RECURSIVE twos_in(_)
twos_in(d) == IF d % 2 = 0 THEN 1 + twos_in(d \div 2) ELSE 0

\* the e with 2^e <= p / d < 2^(e + 1)
RECURSIVE floor_log2(_, _)
floor_log2(p, d) ==
    IF p >= d THEN (IF p >= 2 * d THEN 1 + floor_log2(p, 2 * d) ELSE 0)
    ELSE floor_log2(2 * p, d) - 1

\* 2^k modulo f
RECURSIVE pow2mod(_, _)
pow2mod(k, f) == IF k = 0 THEN 1 % f ELSE (2 * pow2mod(k - 1, f)) % f

\* num / den as Python computes it: the double nearest to the quotient, which
\* has a mantissa of 53 bits. "exact" when the quotient is a double, else
\* whether the double lies above or below the quotient: the mantissa is
\* p * 2^k / d rounded, for the fraction p / d in lowest terms and the k that
\* brings it to 53 bits, and what the rounding drops decides.
float_quotient(num, den) ==
    LET g == gcd(num, den)
        p == num \div g
        d == den \div g
        f == odd_part(d)
        k == 52 - floor_log2(p, d)
        rem == ((p % f) * pow2mod(k - twos_in(d), f)) % f
    IN  IF f = 1 THEN "exact" ELSE IF 2 * rem > f THEN "above" ELSE "below"

\* round(num / den, 3), in thousandths: the nearest thousandth. When the
\* quotient lies in the middle between two thousandths, Python rounds the double:
\* to the even thousandth when the double is the quotient, else to the side on
\* which the double lies.
round3(num, den) ==
    LET q == (1000 * num) \div den
        r == (1000 * num) % den
    IN  IF 2 * r > den THEN q + 1
        ELSE IF 2 * r < den THEN q
        ELSE IF float_quotient(num, den) = "above" THEN q + 1
        ELSE IF float_quotient(num, den) = "below" THEN q
        ELSE IF q % 2 = 0 THEN q ELSE q + 1

\* the number of CVD-only failures found in the groups: compute_cvi adds the
\* index of a group to a set, so a group counts once
RECURSIVE cvd_only_count_per_channel(_)
cvd_only_count_per_channel(gs) ==
    IF gs = <<>> THEN 0
    ELSE Len(_collect_cvd_failures(Head(gs).contrast,
                 threshold_for_font(Head(gs).fontSize, Head(gs).fontWeight)))
         + cvd_only_count_per_channel(Tail(gs))

cvd_only_count(gs) ==
    Cardinality({ idx \in 1..Len(gs) :
        _collect_cvd_failures(gs[idx].contrast,
            threshold_for_font(gs[idx].fontSize, gs[idx].fontWeight)) # <<>> })

risk_category(cvi) ==
    IF cvi = 0 THEN "Fully Accessible"
    ELSE IF cvi <= 50 THEN "Minor Risk"
    ELSE IF cvi <= 150 THEN "Moderate Risk"
    ELSE IF cvi <= 300 THEN "High Risk"
    ELSE "Critical Risk"

\* site_blob.get("result", {}).get("groups", [])
groups_of(site_blob) ==
    IF "result" \in DOMAIN site_blob THEN site_blob.result.groups ELSE <<>>

\* compute_cvi_sites without the test of total_groups == 0: a site without tokens
\* gets a row with cvi 0
RECURSIVE compute_cvi_sites_zero_row(_)
compute_cvi_sites_zero_row(sites) ==
    IF sites = <<>> THEN <<>>
    ELSE LET site_blob == Head(sites).blob
             total_groups == Len(groups_of(site_blob))
             n == cvd_only_count(groups_of(site_blob))
             cvi == IF total_groups = 0 THEN 0 ELSE round3(n, total_groups)
         IN  (IF "error" \in DOMAIN site_blob THEN <<>>
              ELSE << [ site |-> Head(sites).name,
                        cvi |-> cvi,
                        category |-> risk_category(cvi),
                        total_vulnerable |-> n,
                        total_styles |-> total_groups ] >>)
             \o compute_cvi_sites_zero_row(Tail(sites))

\* data["sites"] is a sequence of entries [name, blob] in the order of the dict
RECURSIVE compute_cvi_sites(_)
compute_cvi_sites(sites) ==
    IF sites = <<>> THEN <<>>
    ELSE LET site_blob == Head(sites).blob
             total_groups == Len(groups_of(site_blob))
             n == cvd_only_count(groups_of(site_blob))
             cvi == round3(n, total_groups)
         IN  (IF "error" \in DOMAIN site_blob THEN <<>>
              ELSE IF total_groups = 0 THEN <<>>
              ELSE << [ site |-> Head(sites).name,
                        cvi |-> cvi,
                        category |-> risk_category(cvi),
                        total_vulnerable |-> n,
                        total_styles |-> total_groups ] >>)
             \o compute_cvi_sites(Tail(sites))

compute_cvi(data) == compute_cvi_sites(data.sites)

(***************************************************************************)
(* report.py: the vulnerable components of each site and the site list of  *)
(* main.                                                                   *)
(***************************************************************************)
\* the entry find_vulnerable_components appends for the group g
component_of(g, failures) ==
    [ category |-> g.category,
      state |-> g.state,
      count |-> g.count,
      sample_label |-> IF g.sampleLabels # <<>> THEN Or(g.sampleLabels[1], "") ELSE "",
      sample_tags |-> g.sampleTags,
      fontSize |-> g.fontSize,
      failures |-> failures ]

\* the loop of find_vulnerable_components over the groups of one site
RECURSIVE vulnerable_of(_)
vulnerable_of(gs) ==
    IF gs = <<>> THEN <<>>
    ELSE LET g == Head(gs)
             font_thr == threshold_for_font(g.fontSize, g.fontWeight)
             failures == _collect_cvd_failures(g.contrast, font_thr)
         IN  (IF failures # <<>> THEN <<component_of(g, failures)>> ELSE <<>>)
             \o vulnerable_of(Tail(gs))

\* list.sort(key=-count) that puts a component before the components of equal
\* count that were found before it
RECURSIVE sort_by_negated_count_ties_reversed(_, _)
sort_by_negated_count_ties_reversed(sorted, rest) ==
    IF rest = <<>> THEN sorted
    ELSE LET x == Head(rest)
             pos == Cardinality({ j \in 1..Len(sorted) : -sorted[j].count < -x.count })
         IN  sort_by_negated_count_ties_reversed(
                 SubSeq(sorted, 1, pos) \o <<x>> \o SubSeq(sorted, pos + 1, Len(sorted)),
                 Tail(rest))

\* list.sort(key=-count): a stable sort by rising -count
RECURSIVE sort_by_negated_count(_, _)
sort_by_negated_count(sorted, rest) ==
    IF rest = <<>> THEN sorted
    ELSE LET x == Head(rest)
             pos == Cardinality({ j \in 1..Len(sorted) : -sorted[j].count <= -x.count })
         IN  sort_by_negated_count(
                 SubSeq(sorted, 1, pos) \o <<x>> \o SubSeq(sorted, pos + 1, Len(sorted)),
                 Tail(rest))

\* the dict out of find_vulnerable_components, as entries [site, vulnerable] in
\* the order of data["sites"]
RECURSIVE find_vulnerable_sites(_)
find_vulnerable_sites(sites) ==
    IF sites = <<>> THEN <<>>
    ELSE LET site_blob == Head(sites).blob
         IN  << [ site |-> Head(sites).name,
                  vulnerable |->
                      IF "error" \in DOMAIN site_blob THEN <<>>
                      ELSE sort_by_negated_count(<<>>, vulnerable_of(groups_of(site_blob))) ] >>
             \o find_vulnerable_sites(Tail(sites))

find_vulnerable_components(data) == find_vulnerable_sites(data.sites)

\* report.py main: the list report["sites"] built from the document
RECURSIVE main_report_sites(_)
main_report_sites(sites) ==
    IF sites = <<>> THEN <<>>
    ELSE LET site_blob == Head(sites).blob
             res == site_blob.result
             summ == site_blob.summary
         IN  << IF "error" \in DOMAIN site_blob
                THEN [ site |-> Head(sites).name, error |-> site_blob.error ]
                ELSE [ site |-> Head(sites).name,
                       url |-> summ.url,
                       matched |-> res.matched,
                       scanned |-> res.scanned,
                       kept |-> summ.elements_kept,
                       unique_style_groups |-> summ.unique_style_groups,
                       vuln_text |-> summ.vulnerable_groups_text,
                       vuln_indicator |-> summ.vulnerable_groups_indicator,
                       cvd_only_text |-> summ.cvd_only_fail_text,
                       cvd_only_indicator |-> summ.cvd_only_fail_indicator,
                       unique_vulnerable_groups |-> 0 ] >>
             \o main_report_sites(Tail(sites))

\* cvd_ui_contrast_audit.json as report.py finds it: main of
\* ui_contrast_audit.py has not opened it, has opened it and written a part of
\* the text of the document (an empty part too), or has written the document
NoFile == [ state |-> "none" ]
CutFile == [ state |-> "cut" ]
WholeFile(data) == [ state |-> "whole", data |-> data ]

\* report.py main. Path.read_text raises FileNotFoundError without the file,
\* and json.loads raises JSONDecodeError on a part of the text, which never
\* closes the object it opens. cvi_results.csv is written, then the charts are
\* drawn: with no row in cvi_results, sum(cvs) / len(cvs) in
\* generate_cvi_distribution_chart raises ZeroDivisionError, and main ends
\* before find_vulnerable_components and make_html, without report.html.
report_main(file) ==
    IF file.state = "none" THEN [ raised |-> TRUE, error |-> "FileNotFoundError" ]
    ELSE IF file.state = "cut" THEN [ raised |-> TRUE, error |-> "JSONDecodeError" ]
    ELSE IF compute_cvi(file.data) = <<>>
    THEN [ raised |-> TRUE, error |-> "ZeroDivisionError", cvi_results |-> <<>> ]
    ELSE [ raised |-> FALSE,
           sites |-> main_report_sites(file.data.sites),
           cvi_results |-> compute_cvi(file.data),
           vulnerable_components |-> find_vulnerable_components(file.data) ]

(***************************************************************************)
(* ui_contrast_audit.py: colour parsing.                                   *)
(*                                                                         *)
(* A CSS colour is a string, as everywhere in this module; Chars gives the *)
(* characters of the strings the model uses, and the parser works on them. *)
(* An RGB triple is a tuple <<r, g, b>>; the triple that is None is the    *)
(* empty tuple.                                                            *)
(***************************************************************************)
NoRgb == <<>>

Chars ==
    ("rgb(0, 0, 0)" :> <<"r", "g", "b", "(", "0", ",", " ", "0", ",", " ", "0", ")">>)
    @@ ("rgb(255, 255, 255)" :>
          <<"r", "g", "b", "(", "2", "5", "5", ",", " ", "2", "5", "5", ",", " ", "2", "5", "5", ")">>)
    @@ ("rgb(118, 118, 118)" :>
          <<"r", "g", "b", "(", "1", "1", "8", ",", " ", "1", "1", "8", ",", " ", "1", "1", "8", ")">>)
    @@ ("rgb(255, 0, 0)" :>
          <<"r", "g", "b", "(", "2", "5", "5", ",", " ", "0", ",", " ", "0", ")">>)
    @@ ("rgb(0, 0, 255)" :>
          <<"r", "g", "b", "(", "0", ",", " ", "0", ",", " ", "2", "5", "5", ")">>)
    @@ ("rgb(0, 128, 0)" :>
          <<"r", "g", "b", "(", "0", ",", " ", "1", "2", "8", ",", " ", "0", ")">>)
    @@ ("rgba(0, 0, 0, 0)" :>
          <<"r", "g", "b", "a", "(", "0", ",", " ", "0", ",", " ", "0", ",", " ", "0", ")">>)
    @@ ("rgba(255, 0, 0, 0.5)" :>
          <<"r", "g", "b", "a", "(", "2", "5", "5", ",", " ", "0", ",", " ", "0", ",", " ", "0", ".", "5", ")">>)
    @@ ("rgba(10, 20, 30, 0.0)" :>
          <<"r", "g", "b", "a", "(", "1", "0", ",", " ", "2", "0", ",", " ", "3", "0", ",", " ", "0", ".", "0", ")">>)
    @@ ("rgba(12, 34, 56, .0)" :>
          <<"r", "g", "b", "a", "(", "1", "2", ",", " ", "3", "4", ",", " ", "5", "6", ",", " ", ".", "0", ")">>)
    @@ ("rgba(7, 8, 9, -0)" :>
          <<"r", "g", "b", "a", "(", "7", ",", " ", "8", ",", " ", "9", ",", " ", "-", "0", ")">>)
    @@ ("rgba(0, 0, 0, 1)" :>
          <<"r", "g", "b", "a", "(", "0", ",", " ", "0", ",", " ", "0", ",", " ", "1", ")">>)
    @@ ("transparent" :>
          <<"t", "r", "a", "n", "s", "p", "a", "r", "e", "n", "t">>)
    @@ (" Transparent " :>
          <<" ", "T", "r", "a", "n", "s", "p", "a", "r", "e", "n", "t", " ">>)
    @@ ("RGB(255,0,0)" :>
          <<"R", "G", "B", "(", "2", "5", "5", ",", "0", ",", "0", ")">>)
    @@ (" rgb( 0 , 128 , 0 ) " :>
          <<" ", "r", "g", "b", "(", " ", "0", " ", ",", " ", "1", "2", "8", " ", ",", " ", "0", " ", ")", " ">>)
    @@ ("rgb(300, -20, 127.9)" :>
          <<"r", "g", "b", "(", "3", "0", "0", ",", " ", "-", "2", "0", ",", " ", "1", "2", "7", ".", "9", ")">>)
    @@ ("rgb(1.9, -0.5, +3)" :>
          <<"r", "g", "b", "(", "1", ".", "9", ",", " ", "-", "0", ".", "5", ",", " ", "+", "3", ")">>)
    @@ ("#ff0000" :>
          <<"#", "f", "f", "0", "0", "0", "0">>)
    @@ ("#fff" :>
          <<"#", "f", "f", "f">>)
    @@ ("red" :>
          <<"r", "e", "d">>)
    @@ ("black" :>
          <<"b", "l", "a", "c", "k">>)
    @@ ("hsl(0, 100%, 50%)" :>
          <<"h", "s", "l", "(", "0", ",", " ", "1", "0", "0", "%", ",", " ", "5", "0", "%", ")">>)
    @@ ("color(srgb 1 0 0)" :>
          <<"c", "o", "l", "o", "r", "(", "s", "r", "g", "b", " ", "1", " ", "0", " ", "0", ")">>)
    @@ ("rgb(255 0 0)" :>
          <<"r", "g", "b", "(", "2", "5", "5", " ", "0", " ", "0", ")">>)
    @@ ("rgb(1, 2)" :>
          <<"r", "g", "b", "(", "1", ",", " ", "2", ")">>)
    @@ ("rgb()" :>
          <<"r", "g", "b", "(", ")">>)
    @@ ("rgb(a, b, c)" :>
          <<"r", "g", "b", "(", "a", ",", " ", "b", ",", " ", "c", ")">>)
    @@ ("rgb(1, , 3)" :>
          <<"r", "g", "b", "(", "1", ",", " ", ",", " ", "3", ")">>)
    @@ ("rgba(1, 2, 3, 50%)" :>
          <<"r", "g", "b", "a", "(", "1", ",", " ", "2", ",", " ", "3", ",", " ", "5", "0", "%", ")">>)
    @@ ("rgb(1, 2, 3" :>
          <<"r", "g", "b", "(", "1", ",", " ", "2", ",", " ", "3">>)
    @@ ("rgbx(1, 2, 3)" :>
          <<"r", "g", "b", "x", "(", "1", ",", " ", "2", ",", " ", "3", ")">>)
    @@ ("rgb(0, 0, 0) rgb(255, 0, 0)" :>
          <<"r", "g", "b", "(", "0", ",", " ", "0", ",", " ", "0", ")", " ", "r", "g", "b", "(", "2", "5", "5", ",", " ", "0", ",", " ", "0", ")">>)
    @@ ("rgba (1, 2, 3)" :>
          <<"r", "g", "b", "a", " ", "(", "1", ",", " ", "2", ",", " ", "3", ")">>)

IsSpace(ch) == ch = " "

RECURSIVE lstrip(_)
lstrip(s) == IF s # <<>> /\ IsSpace(Head(s)) THEN lstrip(Tail(s)) ELSE s

RECURSIVE rstrip(_)
rstrip(s) ==
    IF s # <<>> /\ IsSpace(s[Len(s)]) THEN rstrip(SubSeq(s, 1, Len(s) - 1)) ELSE s

strip(s) == rstrip(lstrip(s))

UpperCase == << "A", "B", "C", "D", "E", "F", "G", "H", "I", "J", "K", "L", "M",
                "N", "O", "P", "Q", "R", "S", "T", "U", "V", "W", "X", "Y", "Z" >>
LowerCase == << "a", "b", "c", "d", "e", "f", "g", "h", "i", "j", "k", "l", "m",
                "n", "o", "p", "q", "r", "s", "t", "u", "v", "w", "x", "y", "z" >>

lower_char(ch) ==
    IF \E k \in 1..Len(UpperCase) : UpperCase[k] = ch
    THEN LowerCase[CHOOSE k \in 1..Len(UpperCase) : UpperCase[k] = ch]
    ELSE ch

lower_chars(s) == [ i \in 1..Len(s) |-> lower_char(s[i]) ]

\* _RGBA_RE at position i of c: the position of "(" after rgb or rgba, or 0
rgba_open(c, i) ==
    IF ~(i + 3 <= Len(c) /\ c[i] = "r" /\ c[i + 1] = "g" /\ c[i + 2] = "b") THEN 0
    ELSE IF c[i + 3] = "(" THEN i + 3
    ELSE IF c[i + 3] = "a" /\ i + 4 <= Len(c) /\ c[i + 4] = "(" THEN i + 4
    ELSE 0

\* the position of the first ")" after position open, or 0
rgba_close(c, open) ==
    IF \E j \in (open + 1)..Len(c) : c[j] = ")"
    THEN CHOOSE j \in (open + 1)..Len(c) :
             c[j] = ")" /\ \A k \in (open + 1)..(j - 1) : c[k] # ")"
    ELSE 0

\* _RGBA_RE matches at position i: "(" found, then one character or more that
\* is not ")", then ")"
rgba_match_at(c, i) ==
    /\ rgba_open(c, i) # 0
    /\ rgba_close(c, rgba_open(c, i)) > rgba_open(c, i) + 1

\* _RGBA_RE.search(c): group(1) of the leftmost match, [found |-> FALSE] if none
rgba_search(c) ==
    IF \E i \in 1..Len(c) : rgba_match_at(c, i)
    THEN LET i == CHOOSE i \in 1..Len(c) :
                      rgba_match_at(c, i) /\ \A k \in 1..(i - 1) : ~rgba_match_at(c, k)
             open == rgba_open(c, i)
         IN  [ found |-> TRUE, group |-> SubSeq(c, open + 1, rgba_close(c, open) - 1) ]
    ELSE [ found |-> FALSE, group |-> <<>> ]

\* s.split(","), the parts stripped
RECURSIVE split_from(_, _, _)
split_from(s, part, parts) ==
    IF s = <<>> THEN Append(parts, strip(part))
    ELSE IF Head(s) = "," THEN split_from(Tail(s), <<>>, Append(parts, strip(part)))
    ELSE split_from(Tail(s), Append(part, Head(s)), parts)

split_parts(s) == split_from(s, <<>>, <<>>)

Digits == << "0", "1", "2", "3", "4", "5", "6", "7", "8", "9" >>

IsDigit(ch) == \E k \in 1..Len(Digits) : Digits[k] = ch

DigitValue(ch) == (CHOOSE k \in 1..Len(Digits) : Digits[k] = ch) - 1

RECURSIVE digits_value(_, _)
digits_value(s, acc) ==
    IF s = <<>> THEN acc ELSE digits_value(Tail(s), 10 * acc + DigitValue(Head(s)))

\* float(part) for a decimal numeral: an optional sign, digits, an optional
\* point and digits, one digit at least. ok says whether float() returns;
\* whole is the integer part, neg the sign and zero whether the value is 0.
\* The numerals of the model have no exponent, no underscore and are not
\* inf or nan.
float_of(part) ==
    LET signed == part # <<>> /\ Head(part) \in {"+", "-"}
        body == IF signed THEN Tail(part) ELSE part
        dots == { j \in 1..Len(body) : body[j] = "." }
        point == IF dots = {} THEN Len(body) + 1 ELSE CHOOSE j \in dots : TRUE
        whole == SubSeq(body, 1, point - 1)
        frac == SubSeq(body, point + 1, Len(body))
        ok == /\ Cardinality(dots) <= 1
              /\ \A j \in 1..Len(body) : j # point => IsDigit(body[j])
              /\ Len(whole) + Len(frac) >= 1
    IN  IF ~ok THEN [ ok |-> FALSE, neg |-> FALSE, whole |-> 0, zero |-> FALSE ]
        ELSE [ ok |-> TRUE,
               neg |-> signed /\ Head(part) = "-",
               whole |-> digits_value(whole, 0),
               zero |-> digits_value(whole, 0) = 0 /\ digits_value(frac, 0) = 0 ]

\* int(x): the integer part, towards zero
int_of(x) == IF x.neg THEN 0 - x.whole ELSE x.whole

\* max(0, min(255, v))
clamp255(v) == IF v < 0 THEN 0 ELSE IF v > 255 THEN 255 ELSE v

\* parse_css_color_to_rgb without the test of the alpha part
parse_css_color_to_rgb_alpha_ignored(color) ==
    IF ~Truthy(color) THEN NoRgb
    ELSE LET c == lower_chars(strip(Chars[color]))
             m == rgba_search(c)
             parts == split_parts(m.group)
         IN  IF c = Chars["transparent"] THEN NoRgb
             ELSE IF ~m.found THEN NoRgb
             ELSE IF Len(parts) < 3 THEN NoRgb
             ELSE IF \E k \in 1..3 : ~float_of(parts[k]).ok THEN NoRgb
             ELSE << clamp255(int_of(float_of(parts[1]))),
                     clamp255(int_of(float_of(parts[2]))),
                     clamp255(int_of(float_of(parts[3]))) >>

parse_css_color_to_rgb(color) ==
    IF ~Truthy(color) THEN NoRgb
    ELSE LET c == lower_chars(strip(Chars[color]))
             m == rgba_search(c)
             parts == split_parts(m.group)
         IN  IF c = Chars["transparent"] THEN NoRgb
             ELSE IF ~m.found THEN NoRgb
             ELSE IF Len(parts) < 3 THEN NoRgb
             ELSE IF \E k \in 1..3 : ~float_of(parts[k]).ok THEN NoRgb
             ELSE IF Len(parts) >= 4 /\ ~float_of(parts[4]).ok THEN NoRgb
             ELSE IF Len(parts) >= 4 /\ float_of(parts[4]).zero THEN NoRgb
             ELSE << clamp255(int_of(float_of(parts[1]))),
                     clamp255(int_of(float_of(parts[2]))),
                     clamp255(int_of(float_of(parts[3]))) >>

(***************************************************************************)
(* ui_contrast_audit.py: WCAG contrast.                                    *)
(***************************************************************************)
\* The one element of a set of one element. A value that is used more than
\* once below is bound by x \in {value}, so that it is computed once.
TheOne(S) == CHOOSE x \in S : TRUE

\* The floats of the program are IEEE 754 doubles: 53 significant bits, every
\* result rounded to the nearest double, a result in the middle between two
\* doubles to the one whose last bit is 0. In the model a double is the
\* integer number of units it holds, written as a sequence of limbs of 14 bits,
\* first limb first; the first limb alone may exceed LimbBase. Linear values
\* and luminances are in units of 2^-70, the weights in units of 2^-56, a
\* quotient has the integer part as first limb and 70 bits after it.
LimbBits == 14
LimbBase == 16384

\* the limbs 1..j of x with the carry c added to the j-th, every limb but the
\* first brought into 0..LimbBase-1, followed by done
RECURSIVE carry_from(_, _, _, _)
carry_from(x, j, c, done) ==
    IF j = 1 THEN << x[1] + c >> \o done
    ELSE carry_from(x, j - 1, (x[j] + c) \div LimbBase, << (x[j] + c) % LimbBase >> \o done)

\* the same number with every limb but the first in 0..LimbBase-1
normalise(x) == carry_from(x, Len(x), 0, <<>>)

scale(x, k) == normalise([ j \in 1..Len(x) |-> k * x[j] ])

add(x, y) == normalise([ j \in 1..Len(x) |-> x[j] + y[j] ])

\* x <= y for normalised x and y of the same length
less_eq(x, y) ==
    \A j \in 1..Len(x) : (\A i \in 1..(j - 1) : x[i] = y[i]) => x[j] <= y[j]

\* the sum of the products x[i] * c[p - i], which make the limb p of x * c
RECURSIVE column(_, _, _, _)
column(x, c, p, i) ==
    IF i > Len(x) \/ i >= p THEN 0
    ELSE (IF p - i <= Len(c) THEN x[i] * c[p - i] ELSE 0) + column(x, c, p, i + 1)

\* the exact product x * c, with Len(x) + Len(c) limbs
times(x, c) == normalise([ p \in 1..(Len(x) + Len(c)) |-> column(x, c, p, 1) ])

\* the number of bits of the limb v
RECURSIVE bits(_)
bits(v) == IF v = 0 THEN 0 ELSE 1 + bits(v \div 2)

RECURSIVE bit_length_from(_, _)
bit_length_from(x, i) ==
    IF i > Len(x) THEN 0
    ELSE IF x[i] # 0 THEN (Len(x) - i) * LimbBits + bits(x[i])
    ELSE bit_length_from(x, i + 1)

\* the number of bits of x
bit_length(x) == bit_length_from(x, 1)

\* x with its last s bits rounded away, s >= 1: to the nearest multiple of 2^s,
\* in the middle to the even one; inexact tells that the number x stands for is
\* a little more than x
round_at(x, s, inexact) ==
    TheOne({ IF /\ (x[i_h] \div (2^t_h)) % 2 = 1
                /\ \/ inexact
                   \/ x[i_h] % (2^t_h) # 0
                   \/ \E j \in (i_h + 1)..Len(x) : x[j] # 0
                   \/ (x[i_s] \div (2^t_s)) % 2 = 1
             THEN normalise([ j \in 1..Len(x) |->
                                IF j < i_s THEN x[j]
                                ELSE IF j = i_s THEN x[j] - (x[j] % (2^t_s)) + 2^t_s
                                ELSE 0 ])
             ELSE [ j \in 1..Len(x) |->
                      IF j < i_s THEN x[j]
                      ELSE IF j = i_s THEN x[j] - (x[j] % (2^t_s))
                      ELSE 0 ] :
             i_s \in { Len(x) - s \div LimbBits },
             t_s \in { s % LimbBits },
             i_h \in { Len(x) - (s - 1) \div LimbBits },
             t_h \in { (s - 1) % LimbBits } })

\* the double nearest to x: x rounded to 53 significant bits
round53(x, inexact) ==
    TheOne({ IF s <= 0 THEN x ELSE round_at(x, s, inexact) : s \in { bit_length(x) - 53 } })

\* x + y as the program computes it
fl_add(x, y) == TheOne({ round53(z, FALSE) : z \in { add(x, y) } })

\* c * x as the program computes it, for a weight c and a linear value x: the
\* product is 0 or at least 2^-17, so the limbs dropped from the rounded product
\* are 0
fl_mul(c, x) == TheOne({ SubSeq(round53(p, FALSE), 1, Len(x)) : p \in { times(x, c) } })

\* floor(x / 2^54) for a number x of six limbs
lead(x) == (x[1] * LimbBase + x[2]) * 4 + x[3] \div 4096

\* acc + floor(r / b) and the remainder of r by b, for r < LimbBase * b: b is
\* taken from r as often as a quotient of the leading bits allows, and at least
\* once, until r < b
RECURSIVE digit(_, _, _)
digit(r, b, acc) ==
    IF ~less_eq(b, r) THEN [ d |-> acc, r |-> r ]
    ELSE TheOne({ TheOne({ digit(r2, b, acc + k) :
                           r2 \in { normalise([ j \in 1..Len(r) |-> r[j] - k * b[j] ]) } }) :
                  k \in { IF lead(r) \div (lead(b) + 1) = 0 THEN 1
                          ELSE lead(r) \div (lead(b) + 1) } })

\* r * LimbBase, in six limbs
shift_limb(r) == << r[1] * LimbBase + r[2], r[3], r[4], r[5], r[6], 0 >>

\* n more limbs of the quotient of r by b after the limbs ds, and whether the
\* division leaves no remainder
RECURSIVE long_division(_, _, _, _)
long_division(r, b, ds, n) ==
    IF n = 0 THEN [ digits |-> ds, exact |-> \A j \in 1..Len(r) : r[j] = 0 ]
    ELSE TheOne({ TheOne({ long_division(r2, b, ds2, n - 1) :
                           r2 \in { shift_limb(q.r) },
                           ds2 \in { Append(ds, q.d) } }) :
                  q \in { digit(r, b, 0) } })

\* a / b as the program computes it, for a and b between 0.05 and 1.05
fl_div(a, b) ==
    TheOne({ TheOne({ round53(q.digits, ~q.exact) :
                      q \in { long_division(a6, b6, <<>>, 6) } }) :
             a6 \in { normalise(<<0>> \o a) },
             b6 \in { normalise(<<0>> \o b) } })

\* round(x, 2) of a quotient x, in hundredths: the integer nearest to 100 * x,
\* the even one when 100 * x lies in the middle between two integers
round2(x) ==
    TheOne({ IF y[2] > LimbBase \div 2 \/ (y[2] = LimbBase \div 2 /\ \E j \in 3..Len(y) : y[j] # 0)
             THEN y[1] + 1
             ELSE IF y[2] < LimbBase \div 2 THEN y[1]
             ELSE IF y[1] % 2 = 0 THEN y[1] ELSE y[1] + 1 :
             y \in { scale(x, 100) } })

\* _srgb_channel_to_linear(v) for v = 0..255: the double the program computes,
\* in units of 2^-70
LinearTable ==
    << <<     0,     0,     0,     0,     0 >>,
       <<     4, 15941,  6623,   374, 15808 >>,
       <<     9, 15498, 13246,   749, 15232 >>,
       <<    14, 15056,  3485,  1124, 14592 >>,
       <<    19, 14613, 10108,  1499, 14080 >>,
       <<    24, 14171,   347,  1874, 13312 >>,
       <<    29, 13728,  6970,  2249, 12800 >>,
       <<    34, 13285, 13593,  2624, 12288 >>,
       <<    39, 12843,  3832,  2999, 11776 >>,
       <<    44, 12400, 10455,  3374, 10752 >>,
       <<    49, 11958,   694,  3749, 10240 >>,
       <<    54, 13592, 13988, 11492, 12800 >>,
       <<    60,  3864, 15073,  9422, 14848 >>,
       <<    65, 15416, 12257,  6202,  9216 >>,
       <<    71, 15554, 12219,  5698,  1024 >>,
       <<    78,  4351, 11237,  7719,  9216 >>,
       <<    84, 14646, 13086, 15506,  8192 >>,
       <<    91, 13741, 14036,  3217,  5120 >>,
       <<    99,  1705,  4108,  6998,  1024 >>,
       <<   106, 11372,  1006,  5941,  1024 >>,
       <<   114, 10040,  2023, 13826, 11264 >>,
       <<   122, 14158,  1410,  6029,     0 >>,
       <<   131,  7405,  7661,  4695,     0 >>,
       <<   140,  6228, 11589,  4104,  8192 >>,
       <<   149, 10689,  3487,  8540,  6144 >>,
       <<   159,  4463,  6622, 15660, 10240 >>,
       <<   169,  3994, 12375, 12656, 10240 >>,
       <<   179,  9341, 13638,  9953,  2048 >>,
       <<   190,  4178,  5406, 14038,  6144 >>,
       <<   201,  4945,  1715, 13988,  2048 >>,
       <<   212, 11698,  3392,   727, 10240 >>,
       <<   224,  8108, 14924, 16214, 12288 >>,
       <<   236, 10615, 12158, 11905, 12288 >>,
       <<   249,  2888,  8260, 12551, 14336 >>,
       <<   262,  1364,  4978, 12709,     0 >>,
       <<   275,  6095,  9410, 13112,  8192 >>,
       <<   289,   750,  1602, 11356,  8192 >>,
       <<   303,  1763,   430,  4527,  4096 >>,
       <<   317,  9184, 14775,  9986, 12288 >>,
       <<   332,  6681, 11070, 10217,     0 >>,
       <<   347, 10686, 11897,  4292, 12288 >>,
       <<   363,  4864, 14349,  2939,  8192 >>,
       <<   379,  5648,  6683, 15595,     0 >>,
       <<   395, 13085,  1346, 11126, 12288 >>,
       <<   412, 10838,  2445, 12845,  4096 >>,
       <<   429, 15338,  5985, 12296,     0 >>,
       <<   447, 10248,    89,  7926,  4096 >>,
       <<   465, 11996, 14362, 15111, 12288 >>,
       <<   484,  4246,  5410,  7922,  8192 >>,
       <<   503,  3425,  4485, 14445,  4096 >>,
       <<   522,  9578,  2990, 13372,     0 >>,
       <<   542,  6365,  1805, 16275,     0 >>,
       <<   562, 10213, 11462, 14909,  8192 >>,
       <<   583,  4783,  3156, 13077,     0 >>,
       <<   604,  6500,  7209,  1672,  8192 >>,
       <<   625, 15407, 14915, 13671,  8192 >>,
       <<   647, 15163, 11462,  2175,  8192 >>,
       <<   670,  5809,  8831,  5224,     0 >>,
       <<   693,  3770, 13172, 12136,     0 >>,
       <<   716,  9088,  8548, 10871,     0 >>,
       <<   740,  5419,  6212,  7415,     0 >>,
       <<   764,  9187, 11962,  4627,  8192 >>,
       <<   789,  4049,  9874,  9603,  8192 >>,
       <<   814,  6428, 11569,  7398,     0 >>,
       <<   839, 16364,  7168,  2500,  8192 >>,
       <<   866,  1127, 14550, 16350,     0 >>,
       <<   892,  9909, 13923, 10897,     0 >>,
       <<   919,  9980, 13452,  2937,     0 >>,
       <<   947,  1379,   206, 11289,  8192 >>,
       <<   975,   526,  5790,  2927,  8192 >>,
       <<  1003,  7460,  8124,  4132,     0 >>,
       <<  1032,  5834, 13456,  1893,     0 >>,
       <<  1061, 12070,  7290, 14357,     0 >>,
       <<  1091,  9820,  3625,  4498,     0 >>,
       <<  1121, 15504, 12258, 15586,     0 >>,
       <<  1152, 12776,  6103,  5850,     0 >>,
       <<  1184,  1671,  3176,  6482,     0 >>,
       <<  1215, 14993,  1138, 14667,     0 >>,
       <<  1248,  3625, 10132, 16274,     0 >>,
       <<  1281,   372,  3698,  8463,     0 >>,
       <<  1314,  5268,   759,  7163,     0 >>,
       <<  1348,  1964,   152,  7769,     0 >>,
       <<  1382,  6878, 13457, 15020,     0 >>,
       <<  1417,  3662, 15908, 11988,     0 >>,
       <<  1452,  8734, 11986,   382,     0 >>,
       <<  1488,  5744,  2708, 14801,     0 >>,
       <<  1524, 11109,  2074, 13607,     0 >>,
       <<  1561,  8479,  4346,  7786,     0 >>,
       <<  1598, 14272,   489,  2672,     0 >>,
       <<  1636, 12136, 10990, 15497,     0 >>,
       <<  1675,  2106,  3993,  5741,     0 >>,
       <<  1714,   597, 10028, 13892,     0 >>,
       <<  1753,  7643,  7381,  1540,     0 >>,
       <<  1793,  6892,  4051, 15966,     0 >>,
       <<  1833, 14760,  5039,  8240,     0 >>,
       <<  1874, 14895, 12382,  9893,     0 >>,
       <<  1916,  7330,  8820, 13496,     0 >>,
       <<  1958,  8480,  6989,     3,     0 >>,
       <<  2001,  1993,   306, 15182,     0 >>,
       <<  2044,  4283, 12172,   706,     0 >>,
       <<  2087, 15383, 14079,  3042,     0 >>,
       <<  2132,  2556,  7579,  6942,     0 >>,
       <<  2176, 14984,  7934,   222,     0 >>,
       <<  2222,  3546, 11383,  8126,     0 >>,
       <<  2268,  1041, 11567, 15840,     0 >>,
       <<  2314,  7499, 15946,  8852,     0 >>,
       <<  2361,  6567, 13064,   582,     0 >>,
       <<  2408, 14659,  5352, 14838,     0 >>,
       <<  2456, 15420,  9166,  7146,     0 >>,
       <<  2505,  8881,  5659,  3740,     0 >>,
       <<  2554, 11455,  6354, 16298,     0 >>,
       <<  2604,  6788,  4025, 11198,     0 >>,
       <<  2654, 11293,  5489, 15590,     0 >>,
       <<  2705,  8615, 15259,   104,     0 >>,
       <<  2756, 15169,  2797, 13634,     0 >>,
       <<  2808, 14598,   857, 13432,     0 >>,
       <<  2861,  6931,  7200, 13398,     0 >>,
       <<  2914,  8582,  1010, 10110,     0 >>,
       <<  2968,  3194,  8455, 14592,     0 >>,
       <<  3022,  7181,  4412,  9734,     0 >>,
       <<  3077,  4186, 10793, 14010,     0 >>,
       <<  3132, 10622, 14655,  5758,     0 >>,
       <<  3188, 10134,   988,  3314,     0 >>,
       <<  3245,  2748,  1895,  6166,     0 >>,
       <<  3302,  4876, 14695, 10492,     0 >>,
       <<  3360,   164,  1947,   824,     0 >>,
       <<  3418,  5021,  6158,     6,     0 >>,
       <<  3477,  3092,  2353, 13844,     0 >>,
       <<  3536, 10787, 12787,  1626,     0 >>,
       <<  3596, 11751,  8655,  3806,     0 >>,
       <<  3657,  6010,  8426,  1020,     0 >>,
       <<  3718,  9975, 12322, 12450,     0 >>,
       <<  3780,  7290,  2344,  7888,     0 >>,
       <<  3842, 14364,  7822, 10176,     0 >>,
       <<  3905, 14841,  7136, 11744,     0 >>,
       <<  3969,  8747,  9653, 16294,     0 >>,
       <<  4033, 12493,  6596,  9370,     0 >>,
       <<  4098,  9721,  3828,  5452,     0 >>,
       <<  4164,   457,  5489,  7656,     0 >>,
       <<  4230,  1111, 14014, 11496,     0 >>,
       <<  4296, 11710, 13767,  3448,     0 >>,
       <<  4363, 15896,  3824,  3688,     0 >>,
       <<  4431, 13693, 14378,  5784,     0 >>,
       <<  4500,  5129,  8450,  9820,     0 >>,
       <<  4569,  6612, 12979,  1732,     0 >>,
       <<  4639,  1785,  4147, 10140,     0 >>,
       <<  4709,  7056,  5705, 11148,     0 >>,
       <<  4780,  6067,  7064,  9184,     0 >>,
       <<  4851, 15227, 12464, 15200,     0 >>,
       <<  4924,  1794,  8224,  4320,     0 >>,
       <<  4996, 14944, 11904,   708,     0 >>,
       <<  5070,  5551,  6788, 10756,     0 >>,
       <<  5144,  6407,  7436,  1776,     0 >>,
       <<  5219,  1153, 10540,  7868,     0 >>,
       <<  5294,  6198, 11330,  2676,     0 >>,
       <<  5370,  5183,  3581, 14420,     0 >>,
       <<  5446, 14515, 12402,  7844,     0 >>,
       <<  5524,  1452, 12322,  8544,     0 >>,
       <<  5601, 15170,  9229, 10924,     0 >>,
       <<  5680,  6541,  7613, 13804,     0 >>,
       <<  5759,  8357, 10580,  3720,     0 >>,
       <<  5839,  4259,  3478,   484,     0 >>,
       <<  5919, 10654,  3065,  1396,     0 >>,
       <<  6000, 11182,  8368,  4264,     0 >>,
       <<  6082,  5868,   695, 11028,     0 >>,
       <<  6164, 11118,  9184, 12132,     0 >>,
       <<  6247, 10573, 12510,   708,     0 >>,
       <<  6331,  4257,  4431,   412,     0 >>,
       <<  6415,  8576, 10187,  8504,     0 >>,
       <<  6500,  7171,  4591,  1732,     0 >>,
       <<  6586,    64, 10340,  5252,     0 >>,
       <<  6672,  3663, 16111, 11252,     0 >>,
       <<  6759,  1608,  9338,  9976,     0 >>,
       <<  6846, 10305,  8990,  1620,     0 >>,
       <<  6934, 13394,    45,  5928,     0 >>,
       <<  7023, 10896, 15424,  3820,     0 >>,
       <<  7113,  2837,  4925,  7700,     0 >>,
       <<  7203,  5621, 15460, 14708,     0 >>,
       <<  7294,  2889, 10841,  7032,     0 >>,
       <<  7385, 11047,  2858, 15304,     0 >>,
       <<  7477, 13733,  2143, 16148,     0 >>,
       <<  7570, 10970,  1791,  7688,     0 >>,
       <<  7664,  2780, 10138,  1076,     0 >>,
       <<  7758,  5571,  1619, 10004,     0 >>,
       <<  7853,  2979, 15084,  5272,     0 >>,
       <<  7948, 11413,  6345, 14992,     0 >>,
       <<  8044, 14509, 12032,  9740,     0 >>,
       <<  8141, 12291,  2139, 15112,     0 >>,
       <<  8239,  4779, 11111,  9616,     0 >>,
       <<  8337,  8381,  6776,   600,     0 >>,
       <<  8436,  6734,  5043,   440,     0 >>,
       <<  8535, 16244,  4376,   640,     0 >>,
       <<  8636,  4165,  2184,  9792,     0 >>,
       <<  8737,  3286, 11216,  8024,     0 >>,
       <<  8838, 13630, 10413, 14200,     0 >>,
       <<  8941,  2450, 10457,  4240,     0 >>,
       <<  9044,  2536,  4621,  7888,     0 >>,
       <<  9147, 13909,  1551,  7208,     0 >>,
       <<  9252,  3822,  8885, 13936,     0 >>,
       <<  9357,  5066,   496, 13960,     0 >>,
       <<  9463,  1276, 14801,  8792,     0 >>,
       <<  9569,  8860,  7313,  6200,     0 >>,
       <<  9676, 11453, 14489,  9472,     0 >>,
       <<  9784,  9078,  6282,  5224,     0 >>,
       <<  9893,  1755,   833, 15256,     0 >>,
       << 10002,  5888, 15331, 15968,     0 >>,
       << 10112,  5117,   480,  3928,     0 >>,
       << 10222, 15844,  4345, 10712,     0 >>,
       << 10334,  5323,  8525,  1984,     0 >>,
       << 10446,  6343, 10072,  4456,     0 >>,
       << 10559,  2541,  5120,  2200,     0 >>,
       << 10672, 10321,  5271, 12040,     0 >>,
       << 10786, 13320,  4838, 10024,     0 >>,
       << 10901, 11558, 13615,  4312,     0 >>,
       << 11017,  5057,  7733,  8472,     0 >>,
       << 11133, 10220, 11588, 13504,     0 >>,
       << 11250, 10684, 15926,  8040,     0 >>,
       << 11368,  6470, 10615, 13496,     0 >>,
       << 11486, 13982,  1040,  3704,     0 >>,
       << 11606,   471,  8103,  3408,     0 >>,
       << 11725, 15111,  2698,  5512,     0 >>,
       << 11846,  8769,  4019,  1968,     0 >>,
       << 11967, 14233, 14028, 13528,     0 >>,
       << 12089, 15141,  1082,  3856,     0 >>,
       << 12212, 11510, 14619,  5504,     0 >>,
       << 12336,  3363,  4946, 15416,     0 >>,
       << 12460,  7102,  3468,  4384,     0 >>,
       << 12585,  6363,  8000,  7096,     0 >>,
       << 12711,  1166, 15547, 14920,     0 >>,
       << 12837,  7916,  5923, 14888,     0 >>,
       << 12964, 10247,  7291, 11560,     0 >>,
       << 13092,  8179, 14249, 15160,     0 >>,
       << 13221,  1733,  4221, 12256,     0 >>,
       << 13350,  7311,  2996,  1272,     0 >>,
       << 13480,  8549,  2812, 10608,     0 >>,
       << 13611,  5466, 11519,  1144,     0 >>,
       << 13742, 14467,  3423, 13840,     0 >>,
       << 13875,  2802,  1221,  4936,     0 >>,
       << 14008,  3258, 10460,  8128,     0 >>,
       << 14141, 15856,  3166,  1072,     0 >>,
       << 14276,  7845, 16147,   216,     0 >>,
       << 14411, 12015,  3545,  7640,     0 >>,
       << 14547, 11999,   681,  6024,     0 >>,
       << 14684,  7816,  9369,  2136,     0 >>,
       << 14821, 15870, 14306,  3976,     0 >>,
       << 14960,  3412, 15845, 13328,     0 >>,
       << 15099,  3229, 13617,  1696,     0 >>,
       << 15238, 15340,  6529, 16040,     0 >>,
       << 15379,  6995,  9163,  5424,     0 >>,
       << 15520, 10982,  2617,  7584,     0 >>,
       << 15662, 10935,    54,  6792,     0 >>,
       << 15805,  6872, 13934,  4272,     0 >>,
       << 15948, 15198,  6867,  5872,     0 >>,
       << 16093,  3162,  6306,  9008,     0 >>,
       << 16238,  3551,  6247,  5520,     0 >>,
       << 16384,     0,     0,     0,     0 >> >>

_srgb_channel_to_linear(v255) == LinearTable[v255 + 1]

\* the doubles 0.2126, 0.7152 and 0.0722, in units of 2^-56
WeightRed == <<  3483,  3905, 15492, 11640 >>
WeightGreen == << 11717, 13710,  2149,  9512 >>
WeightBlue == <<  1182, 15151, 15125, 11613 >>

\* the double 0.05, in units of 2^-70
Offset == <<   819,  3276, 13107,  3277,     0 >>

\* the three products of relative_luminance for every value of a channel,
\* 0.2126 * R, 0.7152 * G and 0.0722 * B, each rounded to a double
RedTerm == [ v \in 0..255 |-> fl_mul(WeightRed, _srgb_channel_to_linear(v)) ]
GreenTerm == [ v \in 0..255 |-> fl_mul(WeightGreen, _srgb_channel_to_linear(v)) ]
BlueTerm == [ v \in 0..255 |-> fl_mul(WeightBlue, _srgb_channel_to_linear(v)) ]

\* relative_luminance with the green term added twice
relative_luminance_green_doubled(rgb) ==
    TheOne({ TheOne({ fl_add(rg, BlueTerm[rgb[3]]) : rg \in { fl_add(RedTerm[rgb[1]], gg) } }) :
             gg \in { fl_add(GreenTerm[rgb[2]], GreenTerm[rgb[2]]) } })

\* 0.2126 * R + 0.7152 * G + 0.0722 * B: each product and each of the two sums,
\* taken from the left, is rounded to a double
relative_luminance(rgb) ==
    TheOne({ fl_add(rg, BlueTerm[rgb[3]]) :
             rg \in { fl_add(RedTerm[rgb[1]], GreenTerm[rgb[2]]) } })

\* floor(x / 2^47) for a number x of five limbs
leading(x) == (x[1] * LimbBase + x[2]) \div 32

\* round(a / b, 2), in hundredths. The leading 23 bits of a and of b bound the
\* double a / b: with A = leading(a) and B = leading(b), each at least 2^18,
\*     200 * (A - 1) / (B + 1)  <  200 * (a / b as a double)  <  200 * (A + 2) / B,
\* as the rounding of the quotient changes it by less than one part in 2^52.
\* When no odd integer lies between the two bounds, the hundredth between the
\* odd integers around them is the result; else, and for an a above 1.19, whose
\* bound does not fit 32 bits, the quotient is computed.
round_quotient(a, b) ==
    IF leading(a) >= 10000000 THEN TheOne({ round2(x) : x \in { fl_div(a, b) } })
    ELSE TheOne({ IF above <= 2 * ((below + 1) \div 2) THEN (below + 1) \div 2
                  ELSE TheOne({ round2(x) : x \in { fl_div(a, b) } }) :
                  below \in { (200 * (leading(a) - 1)) \div (leading(b) + 1) },
                  above \in { (200 * (leading(a) + 2)) \div leading(b) } })

\* round((lighter + 0.05) / (darker + 0.05), 2), in hundredths
ratio_rounded(lighter, darker) ==
    TheOne({ round_quotient(a, b) :
             a \in { fl_add(lighter, Offset) },
             b \in { fl_add(darker, Offset) } })

\* contrast_ratio with the first colour taken as the lighter one
contrast_ratio_first_lighter(rgb1, rgb2) ==
    IF rgb1 = NoRgb \/ rgb2 = NoRgb THEN NoRatio
    ELSE TheOne({ ratio_rounded(L1, L2) :
                  L1 \in { relative_luminance(rgb1) },
                  L2 \in { relative_luminance(rgb2) } })

contrast_ratio(rgb1, rgb2) ==
    IF rgb1 = NoRgb \/ rgb2 = NoRgb THEN NoRatio
    ELSE TheOne({ IF less_eq(L2, L1) THEN ratio_rounded(L1, L2) ELSE ratio_rounded(L2, L1) :
                  L1 \in { relative_luminance(rgb1) },
                  L2 \in { relative_luminance(rgb2) } })

(***************************************************************************)
(* ui_contrast_audit.py: CVD simulation with its cache.                    *)
(*                                                                         *)
(* The simulator is an external library. The model runs with one of a few  *)
(* stand-ins for it, each a pure function of the colour and the deficiency:*)
(*   identity   : returns the colour, as a uint8 array;                    *)
(*   offset     : adds 10, 20 or 30 to every channel, up to 255, as uint8; *)
(*   unit_float : returns the colour as floats in 0..1, cut to three       *)
(*                decimals (here in thousandths).                          *)
(* The cache _CVD_CACHE is a function from keys <<rgb, deficiency>> to     *)
(* triples; invocations counts the calls of the simulator per key.         *)
(***************************************************************************)
DEFICIENCY_MAP ==
    ("protanopia" :> "PROTAN") @@ ("deuteranopia" :> "DEUTAN") @@ ("tritanopia" :> "TRITAN")

Simulators == { "identity", "offset", "unit_float" }

\* deficiency.lower().strip() for the kinds of the model
lower_strip(deficiency) ==
    CASE deficiency = "Protanopia" -> "protanopia"
      [] deficiency = " tritanopia " -> "tritanopia"
      [] deficiency = "DEUTERANOPIA" -> "deuteranopia"
      [] deficiency = "Normal" -> "normal"
      [] OTHER -> deficiency

OffsetOf(d) == CASE d = "PROTAN" -> 10 [] d = "DEUTAN" -> 20 [] d = "TRITAN" -> 30

\* _SIMULATOR.simulate_cvd(arr, d, severity=1.0) on the one pixel rgb
simulate_cvd(sim, rgb, d) ==
    CASE sim = "identity" -> [ dtype |-> "uint8", values |-> rgb ]
      [] sim = "offset" ->
            [ dtype |-> "uint8",
              values |-> [ k \in 1..3 |-> IF rgb[k] + OffsetOf(d) > 255 THEN 255
                                          ELSE rgb[k] + OffsetOf(d) ] ]
      [] sim = "unit_float" ->
            [ dtype |-> "float",
              values |-> [ k \in 1..3 |-> (1000 * rgb[k]) \div 255 ] ]

Max3(v) ==
    IF v[1] >= v[2] /\ v[1] >= v[3] THEN v[1] ELSE IF v[2] >= v[3] THEN v[2] ELSE v[3]

\* the array of the simulator made a uint8 triple: floats that look like 0..1
\* are scaled by 255, then clipped to 0..255 and cut to integers
to_uint8(sim_arr) ==
    IF sim_arr.dtype = "uint8" THEN sim_arr.values
    ELSE LET maxv == Max3(sim_arr.values)
             scaled == IF maxv <= 1000 THEN [ k \in 1..3 |-> 255 * sim_arr.values[k] ]
                       ELSE sim_arr.values
         IN  [ k \in 1..3 |-> IF scaled[k] < 0 THEN 0
                              ELSE IF scaled[k] > 255000 THEN 255
                              ELSE scaled[k] \div 1000 ]

CountOf(inv, key) == IF key \in DOMAIN inv THEN inv[key] ELSE 0

\* simulate_rgb without the lookup in the cache
simulate_rgb_uncached(st, rgb, deficiency) ==
    LET d == lower_strip(deficiency)
        key == << rgb, d >>
        sim_rgb == to_uint8(simulate_cvd(st.simulator, rgb, DEFICIENCY_MAP[d]))
    IN  IF rgb = NoRgb THEN [ st |-> st, raised |-> FALSE, value |-> NoRgb ]
        ELSE IF d \notin DOMAIN DEFICIENCY_MAP
        THEN [ st |-> st, raised |-> TRUE, value |-> NoRgb ]
        ELSE [ st |-> [ st EXCEPT
                          !.cache = (key :> sim_rgb) @@ @,
                          !.invocations = (key :> CountOf(@, key) + 1) @@ @ ],
               raised |-> FALSE, value |-> sim_rgb ]

\* simulate_rgb that answers a key found in the cache with the colour itself
simulate_rgb_hit_returns_colour(st, rgb, deficiency) ==
    LET d == lower_strip(deficiency)
        key == << rgb, d >>
        sim_rgb == to_uint8(simulate_cvd(st.simulator, rgb, DEFICIENCY_MAP[d]))
    IN  IF rgb = NoRgb THEN [ st |-> st, raised |-> FALSE, value |-> NoRgb ]
        ELSE IF d \notin DOMAIN DEFICIENCY_MAP
        THEN [ st |-> st, raised |-> TRUE, value |-> NoRgb ]
        ELSE IF key \in DOMAIN st.cache
        THEN [ st |-> st, raised |-> FALSE, value |-> rgb ]
        ELSE [ st |-> [ st EXCEPT
                          !.cache = (key :> sim_rgb) @@ @,
                          !.invocations = (key :> CountOf(@, key) + 1) @@ @ ],
               raised |-> FALSE, value |-> sim_rgb ]

\* simulate_rgb in the state st = [simulator, cache, invocations]: the state
\* after the call, whether it raised ValueError, and the value returned
simulate_rgb(st, rgb, deficiency) ==
    LET d == lower_strip(deficiency)
        key == << rgb, d >>
        sim_rgb == to_uint8(simulate_cvd(st.simulator, rgb, DEFICIENCY_MAP[d]))
    IN  IF rgb = NoRgb THEN [ st |-> st, raised |-> FALSE, value |-> NoRgb ]
        ELSE IF d \notin DOMAIN DEFICIENCY_MAP
        THEN [ st |-> st, raised |-> TRUE, value |-> NoRgb ]
        ELSE IF key \in DOMAIN st.cache
        THEN [ st |-> st, raised |-> FALSE, value |-> st.cache[key] ]
        ELSE [ st |-> [ st EXCEPT
                          !.cache = (key :> sim_rgb) @@ @,
                          !.invocations = (key :> CountOf(@, key) + 1) @@ @ ],
               raised |-> FALSE, value |-> sim_rgb ]

\* simulate_rgb(rgb, d) if rgb else None
simulate_if(st, rgb, d) ==
    IF rgb # NoRgb THEN simulate_rgb(st, rgb, d)
    ELSE [ st |-> st, raised |-> FALSE, value |-> NoRgb ]

\* one turn of the loop of contrast_for_all_vision, for the deficiency d: fg2,
\* then bg2, then out[d], a ratio that is None left out
vision_step(acc, fg_rgb, bg_rgb, d) ==
    TheOne({ TheOne({ TheOne({ [ st |-> bg2.st,
                                 out |-> IF v = NoRatio THEN acc.out
                                         ELSE (d :> v) @@ acc.out ] :
                               v \in { contrast_ratio(fg2.value, bg2.value) } }) :
                      bg2 \in { simulate_if(fg2.st, bg_rgb, d) } }) :
             fg2 \in { simulate_if(acc.st, fg_rgb, d) } })

\* the dict out of contrast_for_all_vision before its loop
vision_start(st, fg_rgb, bg_rgb) ==
    TheOne({ [ st |-> st,
               out |-> IF normal = NoRatio THEN <<>> ELSE ("normal" :> normal) ] :
             normal \in { contrast_ratio(fg_rgb, bg_rgb) } })

\* contrast_for_all_vision that leaves tritanopia out
contrast_for_all_vision_no_tritanopia(st, fg_rgb, bg_rgb) ==
    TheOne({ TheOne({ vision_step(a1, fg_rgb, bg_rgb, "deuteranopia") :
                      a1 \in { vision_step(a0, fg_rgb, bg_rgb, "protanopia") } }) :
             a0 \in { vision_start(st, fg_rgb, bg_rgb) } })

\* contrast_for_all_vision: the state after its calls of simulate_rgb and the
\* channel dict
contrast_for_all_vision(st, fg_rgb, bg_rgb) ==
    TheOne({ TheOne({ TheOne({ vision_step(a2, fg_rgb, bg_rgb, "tritanopia") :
                               a2 \in { vision_step(a1, fg_rgb, bg_rgb, "deuteranopia") } }) :
                      a1 \in { vision_step(a0, fg_rgb, bg_rgb, "protanopia") } }) :
             a0 \in { vision_start(st, fg_rgb, bg_rgb) } })

\* one channel of compute_group_contrasts
channel_contrast(st, fg_rgb, bg_rgb) ==
    IF fg_rgb # NoRgb /\ bg_rgb # NoRgb THEN contrast_for_all_vision(st, fg_rgb, bg_rgb)
    ELSE [ st |-> st, out |-> <<>> ]

\* the three channels in the order of the dict out, the colours parsed
group_channels(st, text_rgb, bg_rgb, border_rgb, outline_rgb) ==
    TheOne({ TheOne({ TheOne({ [ st |-> o.st,
                                 out |-> ("text_on_bg" :> t.out)
                                         @@ ("border_on_bg" :> b.out)
                                         @@ ("outline_on_bg" :> o.out) ] :
                               o \in { channel_contrast(b.st, outline_rgb, bg_rgb) } }) :
                      b \in { channel_contrast(t.st, border_rgb, bg_rgb) } }) :
             t \in { channel_contrast(st, text_rgb, bg_rgb) } })

\* compute_group_contrasts: the state after it and the dict it returns
compute_group_contrasts(st, group) ==
    TheOne({ group_channels(st, text_rgb, bg_rgb, border_rgb, outline_rgb) :
             text_rgb \in { parse_css_color_to_rgb(group.textColor) },
             bg_rgb \in { parse_css_color_to_rgb(group.backgroundColor) },
             border_rgb \in { parse_css_color_to_rgb(group.borderColor) },
             outline_rgb \in { parse_css_color_to_rgb(group.outlineColor) } })

(***************************************************************************)
(* ui_contrast_audit.py: summarize and its nested functions.               *)
(***************************************************************************)
summarize_threshold_for_font(font_size) ==
    LET px == IF font_size \in DOMAIN PxTable THEN PxTable[font_size] ELSE 0
    IN  IF px >= 1800 THEN 300 ELSE 450

any_below(contrasts, thr) ==
    IF DOMAIN contrasts = {} THEN FALSE
    ELSE \E k \in DOMAIN contrasts : contrasts[k] < thr

normal_pass_but_cvd_fail(contrasts, thr) ==
    IF DOMAIN contrasts = {} THEN FALSE
    ELSE IF "normal" \notin DOMAIN contrasts \/ contrasts["normal"] < thr THEN FALSE
    ELSE \E d \in {"protanopia", "deuteranopia", "tritanopia"} :
             d \in DOMAIN contrasts /\ contrasts[d] < thr

\* what the loop of summarize finds for one group
group_flags(g) ==
    LET thr_text == summarize_threshold_for_font(g.fontSize)
        text_c == channel_of(g.contrast, "text_on_bg")
        border_c == channel_of(g.contrast, "border_on_bg")
        outline_c == channel_of(g.contrast, "outline_on_bg")
        text_bad == IF DOMAIN text_c # {} THEN any_below(text_c, thr_text) ELSE FALSE
        indicator_bad == \/ DOMAIN border_c # {} /\ any_below(border_c, 300)
                         \/ DOMAIN outline_c # {} /\ any_below(outline_c, 300)
    IN  [ text_bad |-> text_bad,
          indicator_bad |-> indicator_bad,
          cvd_only_text |-> text_bad /\ normal_pass_but_cvd_fail(text_c, thr_text),
          cvd_only_indicator |->
              indicator_bad
              /\ \/ DOMAIN border_c # {} /\ normal_pass_but_cvd_fail(border_c, 300)
                 \/ DOMAIN outline_c # {} /\ normal_pass_but_cvd_fail(outline_c, 300) ]

example_of(g) ==
    [ layer |-> g.layer, state |-> g.state, category |-> g.category, count |-> g.count,
      textColor |-> g.textColor, backgroundColor |-> g.backgroundColor,
      borderColor |-> g.borderColor, outlineColor |-> g.outlineColor,
      fontSize |-> g.fontSize,
      sample |-> IF g.sampleLabels # <<>> THEN g.sampleLabels[1] ELSE "",
      contrast |-> g.contrast ]

\* list.sort(key=count, reverse=True): a stable sort by falling count
RECURSIVE sort_by_count_desc(_, _)
sort_by_count_desc(sorted, rest) ==
    IF rest = <<>> THEN sorted
    ELSE LET x == Head(rest)
             pos == Cardinality({ j \in 1..Len(sorted) : sorted[j].count >= x.count })
         IN  sort_by_count_desc(
                 SubSeq(sorted, 1, pos) \o <<x>> \o SubSeq(sorted, pos + 1, Len(sorted)),
                 Tail(rest))

\* the loop of summarize counting the border and the outline of a group each
\* on its own
RECURSIVE summarize_from_indicators_apart(_, _, _)
summarize_from_indicators_apart(gs, summary, examples) ==
    IF gs = <<>>
    THEN [summary EXCEPT !.top_vulnerable_examples =
                             SubSeq(sort_by_count_desc(<<>>, examples), 1,
                                    IF Len(examples) < 10 THEN Len(examples) ELSE 10)]
    ELSE LET g == Head(gs)
             f == group_flags(g)
             border_c == channel_of(g.contrast, "border_on_bg")
             outline_c == channel_of(g.contrast, "outline_on_bg")
         IN  summarize_from_indicators_apart(
                 Tail(gs),
                 [summary EXCEPT
                     !.vulnerable_groups_text = IF f.text_bad THEN @ + 1 ELSE @,
                     !.cvd_only_fail_text = IF f.cvd_only_text THEN @ + 1 ELSE @,
                     !.vulnerable_groups_indicator =
                         @ + (IF any_below(border_c, 300) THEN 1 ELSE 0)
                           + (IF any_below(outline_c, 300) THEN 1 ELSE 0),
                     !.cvd_only_fail_indicator = IF f.cvd_only_indicator THEN @ + 1 ELSE @],
                 IF f.text_bad \/ f.indicator_bad
                 THEN Append(examples, example_of(g)) ELSE examples)

\* the loop of summarize over the groups from the j-th on
RECURSIVE summarize_from(_, _, _)
summarize_from(gs, summary, examples) ==
    IF gs = <<>>
    THEN [summary EXCEPT !.top_vulnerable_examples =
                             SubSeq(sort_by_count_desc(<<>>, examples), 1,
                                    IF Len(examples) < 10 THEN Len(examples) ELSE 10)]
    ELSE LET g == Head(gs)
             f == group_flags(g)
         IN  summarize_from(
                 Tail(gs),
                 [summary EXCEPT
                     !.vulnerable_groups_text = IF f.text_bad THEN @ + 1 ELSE @,
                     !.cvd_only_fail_text = IF f.cvd_only_text THEN @ + 1 ELSE @,
                     !.vulnerable_groups_indicator = IF f.indicator_bad THEN @ + 1 ELSE @,
                     !.cvd_only_fail_indicator = IF f.cvd_only_indicator THEN @ + 1 ELSE @],
                 IF f.text_bad \/ f.indicator_bad
                 THEN Append(examples, example_of(g)) ELSE examples)

summarize(site_result) ==
    summarize_from(
        site_result.groups,
        [ url |-> site_result.url,
          elements_kept |-> site_result.elements_kept,
          unique_style_groups |-> site_result.unique_style_groups,
          vulnerable_groups_text |-> 0,
          vulnerable_groups_indicator |-> 0,
          cvd_only_fail_text |-> 0,
          cvd_only_fail_indicator |-> 0,
          top_vulnerable_examples |-> <<>> ],
        <<>>)

(***************************************************************************)
(* ui_contrast_audit.py: scan_url as a whole, and main.                    *)
(*                                                                         *)
(* A page is what the browser finds at a url: outcome says whether         *)
(* page.goto returns ("ok") or raises an error ("raise"); elements are the *)
(* elements the locator matches. The state st of the simulation is         *)
(* threaded through the calls, as the cache is global in the program.      *)
(***************************************************************************)
max_elements == 500

\* the loop of scan_url over the elements els
RECURSIVE scan_elements(_, _)
scan_elements(st, els) ==
    IF els = <<>> THEN st ELSE scan_elements(scan_iteration(st, Head(els)), Tail(els))

\* g["contrast"] = c
with_contrast(g, c) == ("contrast" :> c) @@ g

\* for g in group_list: g["contrast"] = compute_group_contrasts(g)
RECURSIVE scan_contrasts(_, _, _)
scan_contrasts(st, gs, done) ==
    IF gs = <<>> THEN [ st |-> st, groups |-> done ]
    ELSE TheOne({ scan_contrasts(r.st, Tail(gs),
                                 Append(done, with_contrast(Head(gs).g, r.out))) :
                  r \in { compute_group_contrasts(st, Head(gs).g) } })

\* the dict scan_url returns
scan_result(url, matched, scan_n, loop, group_list) ==
    [ url |-> url,
      matched |-> matched,
      scanned |-> scan_n,
      elements_kept |-> loop.kept,
      error_state_tokens_seen |-> loop.error_state_captured,
      category_counts |-> loop.category_counts,
      unique_style_groups |-> Len(group_list),
      groups |-> group_list ]

\* scan_url(page, url): the state of the simulation after it, whether it raised,
\* and the dict it returns
scan_url(st, page, url) ==
    LET matched == Len(page.elements)
        scan_n == IF matched < max_elements THEN matched ELSE max_elements
    IN  IF page.outcome # "ok" THEN [ st |-> st, raised |-> TRUE, value |-> None ]
        ELSE TheOne({ TheOne({ [ st |-> c.st, raised |-> FALSE,
                                 value |-> scan_result(url, matched, scan_n, loop, c.groups) ] :
                               c \in { scan_contrasts(st, loop.groups, <<>>) } }) :
                      loop \in { scan_elements(scan_start,
                                               SubSeq(page.elements, 1, scan_n)) } })

\* urlparse(url).netloc.removeprefix("www.") for the urls of the model
domain_key(url) ==
    CASE url = "https://a.com/" -> "a.com"
      [] url = "https://www.a.com/login" -> "a.com"
      [] url = "https://b.org/" -> "b.org"
      [] OTHER -> ""

\* print_console raises AttributeError when one of the first five examples has
\* no text channel: ex.get("contrast", {}).get("text_on_bg", {}) is then None
print_console_raises(site_summary) ==
    \E j \in 1..Len(site_summary.top_vulnerable_examples) :
        /\ j <= 5
        /\ channel_of(site_summary.top_vulnerable_examples[j].contrast, "text_on_bg") = <<>>

HasName(sites, name) == \E j \in 1..Len(sites) : sites[j].name = name

\* sites[name] = blob on a dict: a key that exists keeps its place
dict_put(sites, name, blob) ==
    IF HasName(sites, name)
    THEN [ j \in 1..Len(sites) |->
             IF sites[j].name = name THEN [ name |-> name, blob |-> blob ] ELSE sites[j] ]
    ELSE Append(sites, [ name |-> name, blob |-> blob ])

\* one turn of the loop of main that drops the sites stored so far when the
\* scan of a site fails
main_iteration_error_resets(st, u) ==
    TheOne({ IF r.raised
             THEN [ sites |-> << [ name |-> domain_key(u.url),
                                   blob |-> [ error |-> "Timeout 60000ms exceeded",
                                              url |-> u.url ] ] >>,
                    sim |-> r.st ]
             ELSE IF print_console_raises(summarize(r.value))
             THEN [ sites |-> dict_put(st.sites, domain_key(u.url),
                                  [ error |-> "'NoneType' object has no attribute 'get'",
                                    url |-> u.url ]),
                    sim |-> r.st ]
             ELSE [ sites |-> dict_put(st.sites, domain_key(u.url),
                                  [ result |-> r.value, summary |-> summarize(r.value) ]),
                    sim |-> r.st ] :
             r \in { scan_url(st.sim, u.page, u.url) } })

\* one turn of the loop of main that no KeyboardInterrupt ends: the site is
\* stored with its result and summary, or with the error raised by scan_url or
\* by print_console
main_iteration(st, u) ==
    TheOne({ IF r.raised
             THEN [ sites |-> dict_put(st.sites, domain_key(u.url),
                                  [ error |-> "Timeout 60000ms exceeded", url |-> u.url ]),
                    sim |-> r.st ]
             ELSE IF print_console_raises(summarize(r.value))
             THEN [ sites |-> dict_put(st.sites, domain_key(u.url),
                                  [ error |-> "'NoneType' object has no attribute 'get'",
                                    url |-> u.url ]),
                    sim |-> r.st ]
             ELSE [ sites |-> dict_put(st.sites, domain_key(u.url),
                                  [ result |-> r.value, summary |-> summarize(r.value) ]),
                    sim |-> r.st ] :
             r \in { scan_url(st.sim, u.page, u.url) } })

\* the arguments of the calls of simulate_rgb in contrast_for_all_vision, in
\* the order of the calls
vision_calls(fg_rgb, bg_rgb) ==
    << << fg_rgb, "protanopia" >>, << bg_rgb, "protanopia" >>,
       << fg_rgb, "deuteranopia" >>, << bg_rgb, "deuteranopia" >>,
       << fg_rgb, "tritanopia" >>, << bg_rgb, "tritanopia" >> >>

\* those of one channel of compute_group_contrasts
channel_calls(fg_rgb, bg_rgb) ==
    IF fg_rgb # NoRgb /\ bg_rgb # NoRgb THEN vision_calls(fg_rgb, bg_rgb) ELSE <<>>

\* those of compute_group_contrasts(group), channel by channel
group_calls(group) ==
    TheOne({ << channel_calls(parse_css_color_to_rgb(group.textColor), bg_rgb),
                channel_calls(parse_css_color_to_rgb(group.borderColor), bg_rgb),
                channel_calls(parse_css_color_to_rgb(group.outlineColor), bg_rgb) >> :
             bg_rgb \in { parse_css_color_to_rgb(group.backgroundColor) } })

\* those of the loop over group_list
RECURSIVE group_list_calls(_)
group_list_calls(gs) ==
    IF gs = <<>> THEN <<>>
    ELSE TheOne({ group_calls(Head(gs).g) \o group_list_calls(rest) : rest \in { Tail(gs) } })

\* those of scan_url(page, url)
scan_calls(page) ==
    IF page.outcome # "ok" THEN <<>>
    ELSE group_list_calls(
             scan_elements(scan_start,
                           SubSeq(page.elements, 1,
                                  IF Len(page.elements) < max_elements
                                  THEN Len(page.elements) ELSE max_elements)).groups)

\* the state in which KeyboardInterrupt leaves simulate_rgb(rgb, deficiency) when
\* it arrives after the simulator was called and before _CVD_CACHE[key] is set
simulate_rgb_interrupted(st, rgb, deficiency) ==
    LET key == << rgb, lower_strip(deficiency) >>
    IN  IF key \in DOMAIN st.cache THEN st
        ELSE [ st EXCEPT !.invocations = (key :> CountOf(@, key) + 1) @@ @ ]

\* the calls of one channel: seen are the states in which KeyboardInterrupt can
\* leave them, before the next call, within it, or later; st is the state after
\* the last call
RECURSIVE channel_interrupted(_, _)
channel_interrupted(st, calls) ==
    IF calls = <<>> THEN [ seen |-> { st }, st |-> st ]
    ELSE TheOne({ [ seen |-> { st, simulate_rgb_interrupted(st, Head(calls)[1], Head(calls)[2]) }
                             \cup nx.seen,
                    st |-> nx.st ] :
                  nx \in { TheOne({ channel_interrupted(after, rest) :
                                    after \in { simulate_rgb(st, Head(calls)[1],
                                                             Head(calls)[2]).st },
                                    rest \in { Tail(calls) } }) } })

\* the states in which KeyboardInterrupt can leave a scan that still has the
\* calls of the channels to make
RECURSIVE scan_interrupted(_, _)
scan_interrupted(st, channels) ==
    IF channels = <<>> THEN { st }
    ELSE TheOne({ here.seen \cup scan_interrupted(here.st, rest) :
                  here \in { channel_interrupted(st, Head(channels)) },
                  rest \in { Tail(channels) } })

\* one turn of the loop of main ended by KeyboardInterrupt, which except
\* Exception does not catch. It arrives before the site is stored, the scan
\* having made some of its calls, or after the result and summary are stored
\* and before print_console is through. When it arrives after the handler stored
\* an error the turn is as main_iteration leaves it.
main_iteration_interrupted(st, u) ==
    { [ sites |-> st.sites, sim |-> sim, stored |-> FALSE ] :
        sim \in scan_interrupted(st.sim, scan_calls(u.page)) }
    \cup { [ sites |-> dict_put(st.sites, domain_key(u.url),
                           [ result |-> r.value, summary |-> summarize(r.value) ]),
             sim |-> r.st,
             stored |-> TRUE ] :
           r \in { x \in { scan_url(st.sim, u.page, u.url) } : ~x.raised } }

(***************************************************************************)
(* Inputs of the scan: what the browser reports for an element.            *)
(***************************************************************************)
Tpl ==
    [ tag |-> "DIV", role |-> "button", type |-> None, label |-> "Save",
      textColor |-> "rgb(0, 0, 0)", backgroundColor |-> "rgb(255, 255, 255)",
      bgResolvedDepth |-> 0,
      fontSize |-> "16px", fontWeight |-> "400", textDecoration |-> "none",
      borderColor |-> "rgb(0, 0, 0)", borderWidth |-> "0px", borderStyle |-> "none",
      outlineColor |-> "rgb(0, 0, 0)", outlineWidth |-> "0px", outlineStyle |-> "none",
      ariaInvalid |-> None, required |-> FALSE ]

\* an element whose two extractions both give data
Elem(data) ==
    [ visible |-> "true", extract |-> TRUE, base |-> data,
      click |-> TRUE, focus |-> TRUE, reextract |-> TRUE, err |-> data ]

\* a form field whose second extraction gives err
Field(data, err) == [Elem(data) EXCEPT !.err = err]

Inp == [Tpl EXCEPT !.tag = "INPUT", !.role = None, !.type = "email", !.label = "Email"]
InpRed == [Inp EXCEPT !.borderColor = "rgb(255, 0, 0)"]

\* elements that differ from Tpl in one field of the style key
StyleVariants ==
    { Elem([Tpl EXCEPT !.textColor = "rgb(118, 118, 118)"]),
      Elem([Tpl EXCEPT !.backgroundColor = "rgb(0, 0, 255)"]),
      Elem([Tpl EXCEPT !.fontSize = "24px"]),
      Elem([Tpl EXCEPT !.fontWeight = "700"]),
      Elem([Tpl EXCEPT !.textDecoration = "underline"]),
      Elem([Tpl EXCEPT !.borderColor = "rgb(255, 0, 0)"]),
      Elem([Tpl EXCEPT !.borderWidth = "1px"]),
      Elem([Tpl EXCEPT !.borderStyle = "solid"]),
      Elem([Tpl EXCEPT !.outlineColor = "rgb(0, 128, 0)"]),
      Elem([Tpl EXCEPT !.outlineWidth = "2px"]),
      Elem([Tpl EXCEPT !.outlineStyle = "auto"]),
      Elem([Tpl EXCEPT !.tag = "SPAN", !.role = "link"]) }

\* elements that are skipped, and form fields whose error state is not recorded
OtherVariants ==
    { [Elem(Tpl) EXCEPT !.visible = "false"],
      [Elem(Tpl) EXCEPT !.visible = "raise"],
      [Elem(Tpl) EXCEPT !.extract = FALSE],
      Elem([Tpl EXCEPT !.bgResolvedDepth = -1]),
      Field(Inp, Inp),
      [Field(Inp, InpRed) EXCEPT !.click = FALSE, !.focus = FALSE],
      [Field(Inp, InpRed) EXCEPT !.click = FALSE],
      [Field(Inp, InpRed) EXCEPT !.reextract = FALSE],
      Field([Tpl EXCEPT !.role = "textbox", !.label = "Name"],
            [Tpl EXCEPT !.role = "textbox", !.label = "Name is required",
                        !.outlineColor = "rgb(255, 0, 0)"]) }

\* elements offered at every position of the page
CorePool ==
    { Elem(Tpl),
      Elem([Tpl EXCEPT !.label = "Cancel"]),
      Elem([Tpl EXCEPT !.label = "Next", !.required = TRUE]),
      Elem([Tpl EXCEPT !.tag = "BUTTON", !.role = None]),
      Elem([Tpl EXCEPT !.label = ""]),
      Field(Inp, InpRed),
      Field([Inp EXCEPT !.label = "Phone", !.required = TRUE],
            [InpRed EXCEPT !.label = "", !.ariaInvalid = "true"]) }

\* the first position takes any element, the second any but a style variant,
\* the later ones a core element
Pool(i) ==
    IF i = 1 THEN CorePool \cup StyleVariants \cup OtherVariants
    ELSE IF i = 2 THEN CorePool \cup OtherVariants
    ELSE CorePool

\* a long page: at position j a fresh tag, role and label, or the first again
LongTags ==
    << "DIV", "SPAN", "LI", "IMG", "SVG", "SUMMARY", "LABEL",
       "TD", "TH", "H2", "P", "NAV", "SECTION", "ARTICLE" >>
LongRoles ==
    << "menuitem", "switch", "option", "slider", "treeitem", "gridcell", "combobox",
       "listbox", "menu", "dialog", "img", "banner", "search", "form" >>
LongLabels ==
    << "L1", "L2", "L3", "L4", "L5", "L6", "L7",
       "L8", "L9", "L10", "L11", "L12", "L13", "L14" >>

Fresh(j) ==
    Elem([Tpl EXCEPT !.tag = LongTags[j], !.role = LongRoles[j], !.label = LongLabels[j]])

LongPool(i) == { Fresh(i), Fresh(1) }

(***************************************************************************)
(* The scan as a state machine.                                            *)
(***************************************************************************)
ScanInit ==
    /\ scanned = <<>>
    /\ groups = scan_start.groups
    /\ category_counts = scan_start.category_counts
    /\ kept = scan_start.kept
    /\ error_state_captured = scan_start.error_state_captured

ReportIdle ==
    /\ call = [fn |-> "none"]
    /\ ret = [fn |-> "none"]

\* no simulation yet
SimIdle ==
    /\ _CVD_CACHE = <<>>
    /\ invocations = <<>>
    /\ simulator = "identity"

\* scan_url in its element loop, no contrast computed yet
AuditIdle ==
    /\ pc = "loop"
    /\ contrast_calls = <<>>
    /\ contrast_turn = 0

\* main with no url to visit
MainIdle ==
    /\ urls = <<>>
    /\ visited = 0
    /\ output = <<>>
    /\ main_pc = "loop"
    /\ json_file = NoFile

\* the loop body of scan_url applied to the next element, el
ScanStep(el) ==
    LET st == [ groups |-> groups, category_counts |-> category_counts,
                kept |-> kept, error_state_captured |-> error_state_captured ]
        nx == scan_iteration(st, el)
    IN  /\ scanned' = Append(scanned, el)
        /\ groups' = nx.groups
        /\ category_counts' = nx.category_counts
        /\ kept' = nx.kept
        /\ error_state_captured' = nx.error_state_captured
        /\ UNCHANGED <<reportVars, simVars, auditVars, mainVars>>

Scan ==
    /\ Len(scanned) < MaxElements
    /\ \E el \in Pool(Len(scanned) + 1) : ScanStep(el)

ScanLong ==
    /\ Len(scanned) < MaxLongElements
    /\ Len(scanned) < Len(LongTags)
    /\ \E el \in LongPool(Len(scanned) + 1) : ScanStep(el)

Init == ScanInit /\ ReportIdle /\ SimIdle /\ AuditIdle /\ MainIdle

Next == Scan

Spec == Init /\ [][Next]_vars

NextLong == ScanLong

SpecLong == Init /\ [][NextLong]_vars

(***************************************************************************)
(* The records of a scan, as the specification speaks of them: a kept      *)
(* element gives one base-state record and, when its error state was       *)
(* triggered and differs, one error-state record.                          *)
(***************************************************************************)
IsKept(el) == el.visible = "true" /\ el.extract /\ Truthy(el.base.label)

ErrorRecorded(el) ==
    /\ IsKept(el)
    /\ el.base.tag \in {"INPUT", "SELECT", "TEXTAREA"} \/ el.base.role = "textbox"
    /\ el.click \/ el.focus
    /\ el.reextract
    /\ \/ Truthy(el.err.borderColor) /\ el.err.borderColor # el.base.borderColor
       \/ Truthy(el.err.outlineColor) /\ el.err.outlineColor # el.base.outlineColor
       \/ Truthy(el.err.ariaInvalid) /\ el.err.ariaInvalid # el.base.ariaInvalid

Record(state, category, data, label) ==
    [ layer |-> "interactive", category |-> category, state |-> state,
      data |-> data, label |-> label ]

RecordsOf(el) ==
    LET category == classify(el.base.tag, el.base.role)
    IN  IF ~IsKept(el) THEN <<>>
        ELSE <<Record("base", category, el.base, el.base.label)>>
             \o IF ErrorRecorded(el)
                THEN <<Record("error", category, el.err, Or(el.err.label, el.base.label))>>
                ELSE <<>>

RECURSIVE Records(_)
Records(els) == IF els = <<>> THEN <<>> ELSE RecordsOf(Head(els)) \o Records(Tail(els))

\* the 14 key fields of a record and of a token
KeyFields(r) ==
    << r.layer, r.category, r.state,
       r.data.textColor, r.data.backgroundColor, r.data.fontSize, r.data.fontWeight,
       r.data.textDecoration, r.data.borderColor, r.data.borderWidth,
       r.data.borderStyle, r.data.outlineColor, r.data.outlineWidth,
       r.data.outlineStyle >>

TokenFields(g) ==
    << g.layer, g.category, g.state,
       g.textColor, g.backgroundColor, g.fontSize, g.fontWeight,
       g.textDecoration, g.borderColor, g.borderWidth,
       g.borderStyle, g.outlineColor, g.outlineWidth, g.outlineStyle >>

KeyOf(r) == style_key(r.layer, r.category, r.state, r.data)

\* the records merged into the token with fields t, in the order of ingestion
RECURSIVE RecordsWith(_, _)
RecordsWith(rs, t) ==
    IF rs = <<>> THEN <<>>
    ELSE (IF KeyFields(Head(rs)) = t THEN <<Head(rs)>> ELSE <<>>)
         \o RecordsWith(Tail(rs), t)

Range(f) == { f[j] : j \in DOMAIN f }

NoDuplicates(items) ==
    \A a, b \in 1..Len(items) : items[a] = items[b] => a = b

IsPrefix(a, b) == Len(a) <= Len(b) /\ \A j \in 1..Len(a) : a[j] = b[j]

(***************************************************************************)
(* C1: two records that agree on the 14 key fields and differ in their     *)
(* label give exactly one token, with count 2 and both labels in the order *)
(* in which they were seen.                                                *)
(***************************************************************************)
C1_TwoRecordsMerge ==
    LET rs == Records(scanned)
    IN  (/\ Len(rs) = 2
         /\ KeyFields(rs[1]) = KeyFields(rs[2])
         /\ rs[1].label # rs[2].label)
        => /\ Len(groups) = 1
           /\ groups[1].g.count = 2
           /\ groups[1].g.sampleLabels = <<rs[1].label, rs[2].label>>

C1_Witness ==
    LET rs == Records(scanned)
    IN  /\ Len(rs) = 2
        /\ KeyFields(rs[1]) = KeyFields(rs[2])
        /\ rs[1].label # rs[2].label
        /\ Len(groups) = 1

(***************************************************************************)
(* C2: two records are merged into the same token exactly when they agree  *)
(* on the 14 key fields: style_key gives equal keys to equal tuples only,  *)
(* tokens have pairwise different tuples, every record has the token of    *)
(* its tuple, and a token counts exactly the records with its tuple.       *)
(***************************************************************************)
C2_KeyIsExactTuple ==
    LET rs == Records(scanned)
    IN  /\ \A a, b \in 1..Len(rs) :
              (KeyOf(rs[a]) = KeyOf(rs[b])) <=> (KeyFields(rs[a]) = KeyFields(rs[b]))
        /\ \A i, j \in 1..Len(groups) :
              TokenFields(groups[i].g) = TokenFields(groups[j].g) => i = j
        /\ \A a \in 1..Len(rs) :
              \E j \in 1..Len(groups) :
                  /\ groups[j].k = KeyOf(rs[a])
                  /\ TokenFields(groups[j].g) = KeyFields(rs[a])
        /\ \A j \in 1..Len(groups) :
              groups[j].g.count = Len(RecordsWith(rs, TokenFields(groups[j].g)))

\* two records that differ in the last key field only, and a token holding two records
C2_Witness ==
    LET rs == Records(scanned)
    IN  /\ \E a, b \in 1..Len(rs) :
              /\ SubSeq(KeyFields(rs[a]), 1, 13) = SubSeq(KeyFields(rs[b]), 1, 13)
              /\ KeyFields(rs[a])[14] # KeyFields(rs[b])[14]
        /\ \E j \in 1..Len(groups) : groups[j].g.count = 2
        /\ Len(groups) = 2

(***************************************************************************)
(* The whole loop of scan_url over a list of elements, and the orders in   *)
(* which a list of elements can be scanned.                                *)
(***************************************************************************)
RECURSIVE ScanAll(_, _)
ScanAll(st, els) ==
    IF els = <<>> THEN st ELSE ScanAll(scan_iteration(st, Head(els)), Tail(els))

Perms(n) == { p \in [1..n -> 1..n] : \A a, b \in 1..n : p[a] = p[b] => a = b }

Permuted(els, p) == [ j \in 1..Len(els) |-> els[p[j]] ]

GroupsInOrder(p) == ScanAll(scan_start, Permuted(scanned, p)).groups

FullView(e) ==
    [ k |-> e.k, count |-> e.g.count, sampleLabels |-> e.g.sampleLabels,
      sampleTags |-> e.g.sampleTags, sampleRoles |-> e.g.sampleRoles,
      a11y |-> e.g.a11y ]

CountView(e) == [ k |-> e.k, count |-> e.g.count, a11y |-> e.g.a11y ]

\* a list that is not full holds the same entries in both runs
SameEntriesBelowCap(a, b, limit) == Len(a) < limit => Range(a) = Range(b)

(***************************************************************************)
(* C3, as claimed: the final set of tokens, with each token's count,       *)
(* sampleLabels, sampleTags, sampleRoles and accessibility counters, is    *)
(* the same for every order in which the records are ingested.             *)
(***************************************************************************)
C3_Claimed_OrderIndependent ==
    \A p \in Perms(Len(scanned)) :
        { FullView(e) : e \in Range(GroupsInOrder(p)) }
            = { FullView(e) : e \in Range(groups) }

(***************************************************************************)
(* C3, amended: the set of token keys and each token's count and           *)
(* accessibility counters are the same for every order of ingestion; a     *)
(* sample list holds the same entries in every order as long as it is not  *)
(* full, but in the order in which they were seen.                         *)
(***************************************************************************)
C3_CountsOrderIndependent ==
    \A p \in Perms(Len(scanned)) :
        LET other == GroupsInOrder(p)
        IN  /\ { CountView(e) : e \in Range(other) } = { CountView(e) : e \in Range(groups) }
            /\ \A e \in Range(groups) : \A o \in Range(other) :
                  e.k = o.k =>
                      /\ SameEntriesBelowCap(e.g.sampleLabels, o.g.sampleLabels, 5)
                      /\ SameEntriesBelowCap(e.g.sampleTags, o.g.sampleTags, 10)
                      /\ SameEntriesBelowCap(e.g.sampleRoles, o.g.sampleRoles, 10)

\* a token merged from several records whose sample labels depend on the order
C3_Witness ==
    \E p \in Perms(Len(scanned)) :
        \E e \in Range(groups) : \E o \in Range(GroupsInOrder(p)) :
            /\ e.k = o.k
            /\ e.g.count >= 2
            /\ e.g.count = o.g.count
            /\ e.g.sampleLabels # o.g.sampleLabels

(***************************************************************************)
(* C4: sampleLabels holds at most 5 entries, sampleTags and sampleRoles at *)
(* most 10; no list holds a duplicate; the entries stand in first-seen     *)
(* order, none of the values seen before the last entry is left out and a  *)
(* list that is not full holds every value seen; a merge never removes,    *)
(* replaces or moves an entry.                                             *)
(***************************************************************************)
\* the position of the first record of rs that holds v in [field]
FirstSeenAt(vals, v) == CHOOSE j \in 1..Len(vals) : vals[j] = v /\ \A i \in 1..(j - 1) : vals[i] # v

FirstSeenOrder(items, vals, limit) ==
    /\ Len(items) <= limit
    /\ NoDuplicates(items)
    /\ \A a \in 1..Len(items) : InList(vals, items[a])
    /\ \A a, b \in 1..Len(items) :
          a < b => FirstSeenAt(vals, items[a]) < FirstSeenAt(vals, items[b])
    /\ \A j \in 1..Len(vals) :
          (Truthy(vals[j]) /\ ~InList(items, vals[j])) =>
              /\ Len(items) = limit
              /\ FirstSeenAt(vals, items[limit]) < j

SampleListsBounded ==
    LET rs == Records(scanned)
    IN  \A j \in 1..Len(groups) :
            LET g == groups[j].g
                mine == RecordsWith(rs, TokenFields(g))
            IN  /\ FirstSeenOrder(g.sampleLabels, [i \in 1..Len(mine) |-> mine[i].label], 5)
                /\ FirstSeenOrder(g.sampleTags, [i \in 1..Len(mine) |-> mine[i].data.tag], 10)
                /\ FirstSeenOrder(g.sampleRoles, [i \in 1..Len(mine) |-> mine[i].data.role], 10)

SampleListsOnlyGrow ==
    /\ Len(groups) <= Len(groups')
    /\ \A j \in 1..Len(groups) :
          /\ groups'[j].k = groups[j].k
          /\ IsPrefix(groups[j].g.sampleLabels, groups'[j].g.sampleLabels)
          /\ IsPrefix(groups[j].g.sampleTags, groups'[j].g.sampleTags)
          /\ IsPrefix(groups[j].g.sampleRoles, groups'[j].g.sampleRoles)

C4_SampleLists == []SampleListsBounded /\ [][SampleListsOnlyGrow]_vars

\* a token whose three lists are full and that was offered a further value for each
C4_Witness ==
    \E j \in 1..Len(groups) :
        LET g == groups[j].g
            mine == RecordsWith(Records(scanned), TokenFields(g))
        IN  /\ Len(g.sampleLabels) = 5
            /\ Len(g.sampleTags) = 10
            /\ Len(g.sampleRoles) = 10
            /\ Cardinality({ mine[i].label : i \in 1..Len(mine) }) > 5
            /\ Cardinality({ mine[i].data.tag : i \in 1..Len(mine) }) > 10
            /\ Cardinality({ mine[i].data.role : i \in 1..Len(mine) }) > 10

(***************************************************************************)
(* Inputs of the report: contrast data.                                    *)
(***************************************************************************)
Ch(n, p, d, t) ==
    ("normal" :> n) @@ ("protanopia" :> p) @@ ("deuteranopia" :> d) @@ ("tritanopia" :> t)

\* every channel dict over these ratios, keys that are None or missing left out
RatioVals == { 250, 299, 300, 390, 449, 450, 500 }

TypeSet == { CVD_TYPES[j] : j \in 1..Len(CVD_TYPES) }

ChannelsAll ==
    UNION { [ S -> RatioVals ] : S \in SUBSET TypeSet }
    \cup { Ch(500, 390, 520, 550), Ch(300, 250, 300, 300) }

\* a few channels: absent, passing, failing for every viewer, failing under CVD only
ChannelsFew ==
    { <<>>,
      Ch(700, 700, 650, 700),
      Ch(500, 390, 520, 550),
      Ch(300, 250, 300, 300),
      Ch(350, 299, 350, 280),
      Ch(250, 250, 250, 250),
      ("protanopia" :> 250) @@ ("tritanopia" :> 250) }

Fonts ==
    { <<"16px", "400">>, <<"24px", "400">>, <<"18.67px", "700">>, <<"1.5em", "bold">> }

Contrast(text, border, outline) ==
    ("text_on_bg" :> text) @@ ("border_on_bg" :> border) @@ ("outline_on_bg" :> outline)

Group(count, font, contrast) ==
    [ layer |-> "interactive", state |-> "base", category |-> "button", count |-> count,
      textColor |-> "rgb(0, 0, 0)", backgroundColor |-> "rgb(255, 255, 255)",
      borderColor |-> "rgb(0, 0, 0)", outlineColor |-> "rgb(0, 0, 0)",
      fontSize |-> font[1], fontWeight |-> font[2],
      sampleLabels |-> <<"Save">>, sampleTags |-> <<"DIV">>,
      contrast |-> contrast ]

\* the examples handed to classify_failure and cvd_only_flag
Examples ==
    { Group(1, f, Contrast(t, b, o)) :
        f \in Fonts, t \in ChannelsFew, b \in ChannelsFew, o \in ChannelsFew }
    \cup { Group(1, <<"16px", "400">>, ("text_on_bg" :> c)) : c \in ChannelsAll }
    \cup { Group(1, <<"16px", "400">>, <<>>) }

\* the tokens of a scanned site
SiteGroups ==
    { Group(5, <<"16px", "400">>, Contrast(Ch(500, 390, 520, 550), <<>>, <<>>)),
      Group(2, <<"16px", "400">>,
            Contrast(Ch(700, 700, 650, 700), Ch(350, 299, 350, 280), Ch(350, 299, 350, 280))),
      Group(5, <<"24px", "400">>, Contrast(Ch(300, 250, 300, 300), <<>>, Ch(250, 250, 250, 250))),
      Group(1, <<"16px", "400">>, Contrast(Ch(700, 700, 650, 700), Ch(700, 700, 650, 700), <<>>)),
      Group(3, <<"16px", "400">>, <<>>),
      Group(2, <<"18px", "400">>, Contrast(Ch(460, 400, 460, 460), <<>>, <<>>)) }

SeqsUpTo(S, n) == UNION { [ 1..m -> S ] : m \in 0..n }

RECURSIVE SumCounts(_)
SumCounts(gs) == IF gs = <<>> THEN 0 ELSE Head(gs).count + SumCounts(Tail(gs))

SiteResult(url, gs) ==
    [ url |-> url, matched |-> SumCounts(gs), scanned |-> SumCounts(gs),
      elements_kept |-> SumCounts(gs), unique_style_groups |-> Len(gs), groups |-> gs ]

SiteResults(url) == { SiteResult(url, gs) : gs \in SeqsUpTo(SiteGroups, MaxGroups) }

ErrorBlob(url) == [ error |-> "Timeout 60000ms exceeded", url |-> url ]

ResultBlob(r) == [ result |-> r, summary |-> summarize(r) ]

FirstSites ==
    { [ name |-> "a.com", blob |-> ResultBlob(r) ] : r \in SiteResults("https://a.com/") }
    \cup { [ name |-> "a.com", blob |-> ErrorBlob("https://a.com/") ] }

SecondSites ==
    { [ name |-> "b.com", blob |-> ErrorBlob("https://b.com/") ],
      [ name |-> "b.com", blob |-> ResultBlob(SiteResult("https://b.com/", <<>>)) ],
      [ name |-> "b.com", blob |->
          ResultBlob(SiteResult("https://b.com/",
              << Group(4, <<"16px", "400">>, Contrast(Ch(500, 390, 520, 550), <<>>, <<>>)) >>)) ] }

Documents ==
    { [ scan_date |-> "2026-01-01", sites |-> <<a>> ] : a \in FirstSites }
    \cup { [ scan_date |-> "2026-01-01", sites |-> <<a, b>> ] :
             a \in FirstSites, b \in SecondSites }

\* sites with many tokens, v of n of them CVD-only-vulnerable, around the
\* breakpoints of the risk category
Repeat(g, n) == [ i \in 1..n |-> g ]

VulnerableGroup ==
    Group(1, <<"16px", "400">>, Contrast(Ch(500, 390, 520, 550), <<>>, <<>>))

SafeGroup ==
    Group(1, <<"16px", "400">>, Contrast(Ch(700, 700, 650, 700), <<>>, <<>>))

BoundaryCounts ==
    { <<0, 20>>, <<1, 20>>, <<2, 20>>, <<3, 20>>, <<4, 20>>, <<6, 20>>, <<7, 20>>,
      <<1, 21>>, <<6, 119>>, <<18, 119>>, <<1, 80>>, <<3, 80>>, <<1, 16>> }

\* compute_cvi reads only the result of a site: these documents leave the
\* summary out
BoundaryDocuments ==
    { [ scan_date |-> "2026-01-01",
        sites |-> << [ name |-> "c.com",
                       blob |-> [ result |-> SiteResult("https://c.com/",
                                    Repeat(VulnerableGroup, p[1])
                                    \o Repeat(SafeGroup, p[2] - p[1])) ] ] >> ] :
        p \in BoundaryCounts }

(***************************************************************************)
(* The report as a state machine: a run applies one function to one input. *)
(***************************************************************************)
ScanIdle ==
    /\ scanned = <<>>
    /\ groups = <<>>
    /\ category_counts = <<>>
    /\ kept = 0
    /\ error_state_captured = 0

WorstCase ==
    /\ call.fn = "none"
    /\ \E c \in ChannelsAll :
          /\ call' = [ fn |-> "worst_case", contrast_dict |-> c ]
          /\ ret' = [ fn |-> "worst_case", value |-> worst_case(c) ]
    /\ UNCHANGED <<scanVars, simVars, auditVars, mainVars>>

ClassifyFailure ==
    /\ call.fn = "none"
    /\ \E ex \in Examples :
          /\ call' = [ fn |-> "classify_failure", example |-> ex ]
          /\ ret' = [ fn |-> "classify_failure", value |-> classify_failure(ex) ]
    /\ UNCHANGED <<scanVars, simVars, auditVars, mainVars>>

CvdOnlyFlag ==
    /\ call.fn = "none"
    /\ \E ex \in Examples, ch \in {"text_on_bg", "border_on_bg", "outline_on_bg"},
          thr \in {300, 450} :
          /\ call' = [ fn |-> "cvd_only_flag", example |-> ex, channel |-> ch,
                       threshold |-> thr ]
          /\ ret' = [ fn |-> "cvd_only_flag", value |-> cvd_only_flag(ex, ch, thr) ]
    /\ UNCHANGED <<scanVars, simVars, auditVars, mainVars>>

CollectCvdFailures ==
    /\ call.fn = "none"
    /\ \E ex \in Examples, thr \in {300, 450} :
          /\ call' = [ fn |-> "_collect_cvd_failures", contrast |-> ex.contrast,
                       font_thr |-> thr ]
          /\ ret' = [ fn |-> "_collect_cvd_failures",
                      value |-> _collect_cvd_failures(ex.contrast, thr) ]
    /\ UNCHANGED <<scanVars, simVars, auditVars, mainVars>>

Summarize ==
    /\ call.fn = "none"
    /\ \E r \in SiteResults("https://a.com/") :
          /\ call' = [ fn |-> "summarize", site_result |-> r ]
          /\ ret' = [ fn |-> "summarize", value |-> summarize(r) ]
    /\ UNCHANGED <<scanVars, simVars, auditVars, mainVars>>

ComputeCvi ==
    /\ call.fn = "none"
    /\ \E data \in Documents \cup BoundaryDocuments :
          /\ call' = [ fn |-> "compute_cvi", data |-> data ]
          /\ ret' = [ fn |-> "compute_cvi", value |-> compute_cvi(data) ]
    /\ UNCHANGED <<scanVars, simVars, auditVars, mainVars>>

\* the font sizes and weights handed to threshold_for_font: the strings of
\* PxTable and WeightTable, and strings that float() rejects
UnparsableSizes == { "1.5em", "large", "", "24pt" }
UnparsableWeights == { "bold", "normal", "" }
FontSizes == DOMAIN PxTable \cup UnparsableSizes
FontWeights == DOMAIN WeightTable \cup UnparsableWeights

ThresholdForFont ==
    /\ call.fn = "none"
    /\ \E font_size \in FontSizes, font_weight \in FontWeights :
          /\ call' = [ fn |-> "threshold_for_font", font_size |-> font_size,
                       font_weight |-> font_weight ]
          /\ ret' = [ fn |-> "threshold_for_font",
                      value |-> threshold_for_font(font_size, font_weight) ]
    /\ UNCHANGED <<scanVars, simVars, auditVars, mainVars>>

FindVulnerableComponents ==
    /\ call.fn = "none"
    /\ \E data \in Documents :
          /\ call' = [ fn |-> "find_vulnerable_components", data |-> data ]
          /\ ret' = [ fn |-> "find_vulnerable_components",
                      value |-> find_vulnerable_components(data) ]
    /\ UNCHANGED <<scanVars, simVars, auditVars, mainVars>>

\* report.py main
ReportSites ==
    /\ call.fn = "none"
    /\ \E data \in Documents :
          /\ call' = [ fn |-> "main", data |-> data ]
          /\ ret' = [ fn |-> "main", value |-> report_main(WholeFile(data)) ]
    /\ UNCHANGED <<scanVars, simVars, auditVars, mainVars>>

InitReport == ScanIdle /\ ReportIdle /\ SimIdle /\ AuditIdle /\ MainIdle

NextReport ==
    \/ WorstCase
    \/ ClassifyFailure
    \/ CvdOnlyFlag
    \/ CollectCvdFailures
    \/ Summarize
    \/ ComputeCvi
    \/ ThresholdForFont
    \/ FindVulnerableComponents
    \/ ReportSites

SpecReport == InitReport /\ [][NextReport]_vars

(***************************************************************************)
(* The colour functions as a state machine: a run is a sequence of calls   *)
(* that share the cache of simulate_rgb.                                   *)
(***************************************************************************)
White == << 255, 255, 255 >>
Black == << 0, 0, 0 >>
Red == << 255, 0, 0 >>
Grey == << 118, 118, 118 >>

\* the arguments of simulate_rgb
SimColours == { Red, NoRgb }

Kinds ==
    { "protanopia", "deuteranopia", " tritanopia ", "Protanopia", "normal",
      "achromatopsia" }

\* the arguments of contrast_ratio
RatioColours ==
    { White, Black, Red, Grey, << 0, 0, 255 >>, << 0, 128, 0 >>, NoRgb,
      << 5, 122, 205 >>, << 7, 7, 7 >>, << 8, 8, 8 >>, << 92, 92, 92 >> }

\* the arguments of parse_css_color_to_rgb: the strings of Chars, the empty
\* string and None
ColourStrings == DOMAIN Chars \cup { "", None }

\* a token as _init_group makes it, with the four colours given
ColourGroup(text, bg, border, outline) ==
    [ Group(1, <<"16px", "400">>, <<>>) EXCEPT
        !.textColor = text, !.backgroundColor = bg,
        !.borderColor = border, !.outlineColor = outline ]

ColourGroups ==
    { ColourGroup("rgb(0, 0, 0)", "rgb(255, 255, 255)", "rgb(0, 0, 0)", "rgb(0, 0, 0)"),
      ColourGroup("rgb(118, 118, 118)", "rgb(255, 255, 255)", "rgba(0, 0, 0, 0)",
                  "transparent"),
      ColourGroup("rgb(255, 0, 0)", "rgba(0, 0, 0, 0)", "rgb(0, 0, 0)", "rgb(255, 0, 0)"),
      ColourGroup("#ff0000", "rgb(255, 255, 255)", "rgb(255, 0, 0)",
                  "rgb(0, 0, 0) rgb(255, 0, 0)"),
      ColourGroup("rgb(255, 255, 255)", "rgb(255, 255, 255)", None, "red"),
      ColourGroup("rgb(255, 0, 0)", "rgb(0, 0, 0)", "hsl(0, 100%, 50%)", "") }

SimState == [ simulator |-> simulator, cache |-> _CVD_CACHE, invocations |-> invocations ]

SimulateRgb ==
    \E rgb \in SimColours, deficiency \in Kinds :
        LET r == simulate_rgb(SimState, rgb, deficiency)
        IN  /\ call' = [ fn |-> "simulate_rgb", rgb |-> rgb, deficiency |-> deficiency ]
            /\ ret' = [ fn |-> "simulate_rgb", raised |-> r.raised, value |-> r.value ]
            /\ _CVD_CACHE' = r.st.cache
            /\ invocations' = r.st.invocations
            /\ UNCHANGED <<simulator, scanVars, auditVars, mainVars>>

ComputeGroupContrasts ==
    \E group \in ColourGroups :
        LET r == compute_group_contrasts(SimState, group)
        IN  /\ call' = [ fn |-> "compute_group_contrasts", group |-> group ]
            /\ ret' = [ fn |-> "compute_group_contrasts", value |-> r.out ]
            /\ _CVD_CACHE' = r.st.cache
            /\ invocations' = r.st.invocations
            /\ UNCHANGED <<simulator, scanVars, auditVars, mainVars>>

\* the two functions without state are applied as the first call of a run
ParseCssColorToRgb ==
    \E color \in ColourStrings :
        /\ call.fn = "none"
        /\ call' = [ fn |-> "parse_css_color_to_rgb", color |-> color ]
        /\ ret' = [ fn |-> "parse_css_color_to_rgb", value |-> parse_css_color_to_rgb(color) ]
        /\ UNCHANGED <<simVars, scanVars, auditVars, mainVars>>

ContrastRatio ==
    \E rgb1 \in RatioColours, rgb2 \in RatioColours :
        /\ call.fn = "none"
        /\ call' = [ fn |-> "contrast_ratio", rgb1 |-> rgb1, rgb2 |-> rgb2 ]
        /\ ret' = [ fn |-> "contrast_ratio", value |-> contrast_ratio(rgb1, rgb2) ]
        /\ UNCHANGED <<simVars, scanVars, auditVars, mainVars>>

\* a run starts with an empty cache and one of the simulators
InitSim ==
    /\ ScanIdle
    /\ ReportIdle
    /\ _CVD_CACHE = <<>>
    /\ invocations = <<>>
    /\ simulator \in Simulators
    /\ AuditIdle
    /\ MainIdle

NextSim ==
    \/ SimulateRgb
    \/ ComputeGroupContrasts
    \/ ParseCssColorToRgb
    \/ ContrastRatio

SpecSim == InitSim /\ [][NextSim]_vars

(***************************************************************************)
(* scan_url as a state machine: one step per element of the loop, then one *)
(* step per token of group_list, then the return. The page shows up to     *)
(* MaxScanned elements, so the loop may end after any of them.             *)
(***************************************************************************)
MaxScanned == 2         \* elements of the page in a run of SpecScan

ScanUrl == "https://a.com/"

\* one turn of "for g in group_list" that leaves the error-state tokens
\* without contrast
contrast_step_skips_error_tokens(st, gs, j) ==
    IF gs[j].g.state = "error" THEN [ st |-> st, groups |-> gs, called |-> <<>> ]
    ELSE TheOne({ [ st |-> r.st,
                    groups |-> [ gs EXCEPT ![j].g = with_contrast(@, r.out) ],
                    called |-> << gs[j].k >> ] :
                  r \in { compute_group_contrasts(st, gs[j].g) } })

\* one turn of "for g in group_list": g["contrast"] = compute_group_contrasts(g)
\* for the j-th token; called lists the tokens compute_group_contrasts was
\* invoked for
contrast_step(st, gs, j) ==
    TheOne({ [ st |-> r.st,
               groups |-> [ gs EXCEPT ![j].g = with_contrast(@, r.out) ],
               called |-> << gs[j].k >> ] :
             r \in { compute_group_contrasts(st, gs[j].g) } })

InitScan ==
    /\ ScanInit
    /\ ReportIdle
    /\ AuditIdle
    /\ MainIdle
    /\ _CVD_CACHE = <<>>
    /\ invocations = <<>>
    /\ simulator \in Simulators

\* the loop body for the next element of the page
ScanElement ==
    /\ pc = "loop"
    /\ Len(scanned) < MaxScanned
    /\ \E el \in CorePool : ScanStep(el)

\* range(scan_n) is exhausted: group_list = list(groups.values())
ScanLoopEnd ==
    /\ pc = "loop"
    /\ pc' = "contrast"
    /\ contrast_calls' = <<>>
    /\ contrast_turn' = 0
    /\ UNCHANGED <<scanVars, reportVars, simVars, mainVars>>

\* the contrast of the next token of group_list
ScanContrast ==
    /\ pc = "contrast"
    /\ contrast_turn < Len(groups)
    /\ LET st == [ simulator |-> simulator, cache |-> _CVD_CACHE,
                   invocations |-> invocations ]
           r == contrast_step(st, groups, contrast_turn + 1)
       IN  /\ groups' = r.groups
           /\ _CVD_CACHE' = r.st.cache
           /\ invocations' = r.st.invocations
           /\ contrast_calls' = contrast_calls \o r.called
    /\ contrast_turn' = contrast_turn + 1
    /\ UNCHANGED <<scanned, category_counts, kept, error_state_captured,
                   reportVars, simulator, pc, mainVars>>

\* return of scan_url
ScanReturn ==
    /\ pc = "contrast"
    /\ contrast_turn = Len(groups)
    /\ pc' = "done"
    /\ ret' = [ fn |-> "scan_url",
                value |-> scan_result(ScanUrl, Len(scanned),
                             IF Len(scanned) < max_elements THEN Len(scanned)
                             ELSE max_elements,
                             [ kept |-> kept,
                               error_state_captured |-> error_state_captured,
                               category_counts |-> category_counts ],
                             [ j \in 1..Len(groups) |-> groups[j].g ]) ]
    /\ UNCHANGED <<scanVars, call, simVars, contrast_calls, contrast_turn, mainVars>>

NextScan ==
    \/ ScanElement
    \/ ScanLoopEnd
    \/ ScanContrast
    \/ ScanReturn

SpecScan == InitScan /\ [][NextScan]_vars

(***************************************************************************)
(* main of ui_contrast_audit.py as a state machine: one step per url of    *)
(* the list, then main writes the file and returns, or ends with a         *)
(* KeyboardInterrupt it does not catch, and report.py reads the file main  *)
(* left. No file of an earlier run is there at the start. The cache of     *)
(* simulate_rgb lives through the whole run.                               *)
(***************************************************************************)
MaxUrls == 2            \* urls given to main in a run of SpecMain

PageDown == [ outcome |-> "raise", elements |-> <<>> ]
PageEmpty == [ outcome |-> "ok", elements |-> <<>> ]
PagePlain ==
    [ outcome |-> "ok",
      elements |-> << Elem(Tpl), Elem([Tpl EXCEPT !.label = "Cancel"]), Field(Inp, InpRed) >> ]
\* grey text that passes on white for normal vision, and a second token
PageGrey ==
    [ outcome |-> "ok",
      elements |-> << Elem([Tpl EXCEPT !.textColor = "rgb(118, 118, 118)"]), Elem(Tpl) >> ]
\* a button with transparent text and a white border on white
PageHiddenText ==
    [ outcome |-> "ok",
      elements |-> << Elem([Tpl EXCEPT !.textColor = "rgba(0, 0, 0, 0)",
                                       !.borderColor = "rgb(255, 255, 255)"]) >> ]

Pages == { PageDown, PageEmpty, PagePlain, PageGrey, PageHiddenText }

MainUrls == { "https://a.com/", "https://www.a.com/login", "https://b.org/" }

\* the first url with every page, the second url of the same site and the url of
\* another site with some of the pages
UrlPages ==
    { [ url |-> "https://a.com/", page |-> p ] : p \in Pages }
    \cup { [ url |-> "https://www.a.com/login", page |-> p ] : p \in { PageDown, PagePlain } }
    \cup { [ url |-> "https://b.org/", page |-> p ] :
              p \in { PageDown, PageEmpty, PageGrey, PageHiddenText } }

\* the list of urls is never empty: without arguments main takes DEFAULT_URLS
InitMain ==
    /\ ScanIdle
    /\ ReportIdle
    /\ AuditIdle
    /\ _CVD_CACHE = <<>>
    /\ invocations = <<>>
    /\ simulator \in Simulators
    /\ urls \in SeqsUpTo(UrlPages, MaxUrls) \ { <<>> }
    /\ visited = 0
    /\ output = <<>>
    /\ main_pc = "loop"
    /\ json_file = NoFile

\* one turn of the loop over the urls
MainVisit ==
    /\ main_pc = "loop"
    /\ visited < Len(urls)
    /\ LET nx == main_iteration([ sites |-> output, sim |-> SimState ], urls[visited + 1])
       IN  /\ output' = nx.sites
           /\ _CVD_CACHE' = nx.sim.cache
           /\ invocations' = nx.sim.invocations
    /\ visited' = visited + 1
    /\ UNCHANGED <<scanVars, reportVars, auditVars, simulator, urls, main_pc, json_file>>

\* KeyboardInterrupt ends the loop: in the turn of the next url, or after the
\* last turn while the browser is still open. visited counts the urls whose
\* site is stored.
MainInterrupt ==
    /\ main_pc = "loop"
    /\ main_pc' = "interrupted"
    /\ IF visited = Len(urls)
       THEN UNCHANGED <<output, _CVD_CACHE, invocations, visited>>
       ELSE \E nx \in main_iteration_interrupted([ sites |-> output, sim |-> SimState ],
                                                urls[visited + 1]) :
               /\ output' = nx.sites
               /\ _CVD_CACHE' = nx.sim.cache
               /\ invocations' = nx.sim.invocations
               /\ visited' = IF nx.stored THEN visited + 1 ELSE visited
    /\ UNCHANGED <<scanVars, reportVars, auditVars, simulator, urls, json_file>>

\* the document main writes
output_document == [ scan_date |-> "2026-01-01", sites |-> output ]

\* the loop is over or was interrupted, and no KeyboardInterrupt arrives any
\* more: the browser is closed, json.dump(output) writes the file, main returns
MainSave ==
    /\ \/ main_pc = "loop" /\ visited = Len(urls)
       \/ main_pc = "interrupted"
    /\ main_pc' = "saved"
    /\ call' = [ fn |-> "main", interrupted |-> main_pc = "interrupted" ]
    /\ ret' = [ fn |-> "main", raised |-> FALSE, value |-> output_document ]
    /\ json_file' = WholeFile(output_document)
    /\ UNCHANGED <<scanVars, auditVars, simVars, urls, visited, output>>

\* a KeyboardInterrupt that main does not catch ends main with it. Before the
\* try the file is not opened. After the loop it arrives in the handler of an
\* earlier one, in browser.close() (except Exception lets it pass) or before
\* open: no file; between open and the end of json.dump: a part of the text,
\* which the with statement still closes; after the last write: the document.
MainRaise ==
    /\ \/ /\ main_pc = "loop"
          /\ visited = 0
          /\ json_file' = json_file
       \/ /\ \/ main_pc = "loop" /\ visited = Len(urls)
             \/ main_pc = "interrupted"
          /\ json_file' \in { json_file, CutFile, WholeFile(output_document) }
    /\ main_pc' = "raised"
    /\ call' = [ fn |-> "main", interrupted |-> main_pc = "interrupted" ]
    /\ ret' = [ fn |-> "main", raised |-> TRUE ]
    /\ UNCHANGED <<scanVars, auditVars, simVars, urls, visited, output>>

\* report.py, run after main has ended, on the file main left
MainReport ==
    /\ main_pc \in { "saved", "raised" }
    /\ main_pc' = IF report_main(json_file).raised THEN "report_failed" ELSE "reported"
    /\ call' = [ fn |-> "report", file |-> json_file ]
    /\ ret' = [ fn |-> "report" ] @@ report_main(json_file)
    /\ UNCHANGED <<scanVars, auditVars, simVars, urls, visited, output, json_file>>

NextMain ==
    \/ MainVisit
    \/ MainInterrupt
    \/ MainSave
    \/ MainRaise
    \/ MainReport

SpecMain == InitMain /\ [][NextMain]_vars

(***************************************************************************)
(* The rules of the specification, stated on a channel dict c.             *)
(***************************************************************************)
ChannelNames == << "text_on_bg", "border_on_bg", "outline_on_bg" >>
ShortNames == << "text", "border", "outline" >>

Measurable(c) == DOMAIN c # {}

\* rule 1: the minimum of the ratios present, and the earliest type holding it
MinRatio(c) == CHOOSE m \in Range(c) : \A x \in Range(c) : m <= x

EarliestTypeOfMin(c) ==
    CVD_TYPES[CHOOSE j \in 1..Len(CVD_TYPES) :
        /\ CVD_TYPES[j] \in DOMAIN c
        /\ c[CVD_TYPES[j]] = MinRatio(c)
        /\ \A i \in 1..(j - 1) :
              CVD_TYPES[i] \in DOMAIN c => c[CVD_TYPES[i]] # MinRatio(c)]

\* rule 2: the worst case over all vision types is below the threshold
ChannelFails(c, thr) == \E t \in DOMAIN c : c[t] < thr

\* rule 3: normal vision passes and some CVD type fails
CvdOnlyVulnerable(c, thr) ==
    /\ "normal" \in DOMAIN c
    /\ c["normal"] >= thr
    /\ \E t \in {"protanopia", "deuteranopia", "tritanopia"} : t \in DOMAIN c /\ c[t] < thr

\* the threshold of the j-th channel of a token
ChannelThreshold(g, j) ==
    IF j = 1 THEN threshold_for_font(g.fontSize, g.fontWeight) ELSE 300

TokenCvdOnly(g) ==
    \E j \in 1..3 :
        CvdOnlyVulnerable(channel_of(g.contrast, ChannelNames[j]), ChannelThreshold(g, j))

Count(S) == Cardinality(S)

(***************************************************************************)
(* C5: a channel is flagged CVD-only-vulnerable exactly when its normal    *)
(* ratio is present and at least the threshold and one of the three CVD    *)
(* ratios is present and below it; {5.0, 3.9, 5.2, 5.5} at 4.5 is flagged  *)
(* and {3.0, 2.5, 3.0, 3.0} at 4.5 is not; cvd_only_flag,                  *)
(* _collect_cvd_failures and normal_pass_but_cvd_fail decide alike.        *)
(***************************************************************************)
C5_CvdOnlyRule ==
    /\ call.fn = "cvd_only_flag" =>
          LET c == channel_of(call.example.contrast, call.channel)
          IN  /\ ret.value = CvdOnlyVulnerable(c, call.threshold)
              /\ normal_pass_but_cvd_fail(c, call.threshold) = ret.value
              /\ (c = Ch(500, 390, 520, 550) /\ call.threshold = 450) => ret.value = TRUE
              /\ (c = Ch(300, 250, 300, 300) /\ call.threshold = 450) => ret.value = FALSE
    /\ call.fn = "_collect_cvd_failures" =>
          \A j \in 1..3 :
              LET c == channel_of(call.contrast, ChannelNames[j])
                  thr == IF j = 1 THEN call.font_thr ELSE 300
              IN  /\ (\E i \in 1..Len(ret.value) : ret.value[i].channel = ShortNames[j])
                        <=> CvdOnlyVulnerable(c, thr)
                  /\ normal_pass_but_cvd_fail(c, thr) = CvdOnlyVulnerable(c, thr)

C5_Witness ==
    /\ call.fn = "cvd_only_flag"
    /\ channel_of(call.example.contrast, call.channel) = Ch(500, 390, 520, 550)
    /\ call.threshold = 450
    /\ ret.value = TRUE

(***************************************************************************)
(* C6: classify_failure gives a reason for a channel exactly when the      *)
(* worst ratio of the channel over all four vision types is below the      *)
(* threshold of the channel, the font threshold for text and 3.0 for       *)
(* border and outline whatever the font; is_vulnerable holds exactly when  *)
(* some channel fails.                                                     *)
(***************************************************************************)
ReasonGiven(v, j) ==
    LET worst == << v.text_worst, v.border_worst, v.outline_worst >>[j]
        type == << v.text_worst_type, v.border_worst_type, v.outline_worst_type >>[j]
        thr == IF j = 1 THEN v.font_threshold ELSE 300
    IN  /\ worst # NoRatio
        /\ InList(v.reasons, reason(ShortNames[j], thr, worst, type))

C6_FailsBelowThreshold ==
    call.fn = "classify_failure" =>
        LET ex == call.example
            v == ret.value
            failing == { j \in 1..3 :
                ChannelFails(channel_of(ex.contrast, ChannelNames[j]), ChannelThreshold(ex, j)) }
        IN  /\ v.font_threshold = threshold_for_font(ex.fontSize, ex.fontWeight)
            /\ \A j \in 1..3 : ReasonGiven(v, j) <=> j \in failing
            /\ Len(v.reasons) = Count(failing)
            /\ v.is_vulnerable <=> failing # {}

\* small text: a border between 3.0 and 4.5 passes while the text fails
C6_Witness ==
    /\ call.fn = "classify_failure"
    /\ ret.value.font_threshold = 450
    /\ ret.value.border_worst >= 300
    /\ ret.value.border_worst < 450
    /\ ret.value.text_worst # NoRatio
    /\ ret.value.text_worst < 450
    /\ Len(ret.value.reasons) = 1
    /\ ret.value.is_vulnerable

(***************************************************************************)
(* C7: worst_case returns the minimum of the ratios present and the vision *)
(* type holding it, the earliest in the order normal, protanopia,          *)
(* deuteranopia, tritanopia when several hold it, and (None, None) when    *)
(* the channel is absent or every entry is null.                           *)
(***************************************************************************)
C7_WorstCase ==
    call.fn = "worst_case" =>
        LET c == call.contrast_dict
        IN  IF Measurable(c)
            THEN ret.value = << MinRatio(c), EarliestTypeOfMin(c) >>
            ELSE ret.value = << NoRatio, None >>

\* the minimum is held by protanopia and by a later type, and not by normal
C7_Witness ==
    /\ call.fn = "worst_case"
    /\ DOMAIN call.contrast_dict = TypeSet
    /\ call.contrast_dict["protanopia"] = call.contrast_dict["tritanopia"]
    /\ call.contrast_dict["protanopia"] < call.contrast_dict["normal"]
    /\ call.contrast_dict["protanopia"] < call.contrast_dict["deuteranopia"]
    /\ ret.value[2] = "protanopia"

(***************************************************************************)
(* C8: an absent channel gives no worst ratio and no reason, is never      *)
(* flagged CVD-only-vulnerable and is not counted as failing by the        *)
(* verdict, the rollup counts or the CVI; the token is kept, with the      *)
(* reasons of its measurable channels only.                                *)
(***************************************************************************)
AbsentChannels(contrast) ==
    { j \in 1..3 : ~Measurable(channel_of(contrast, ChannelNames[j])) }

C8_AbsentChannelExcluded ==
    /\ call.fn = "classify_failure" =>
          LET ex == call.example
              v == ret.value
              worst == << v.text_worst, v.border_worst, v.outline_worst >>
              type == << v.text_worst_type, v.border_worst_type, v.outline_worst_type >>
              failing == { j \in (1..3) \ AbsentChannels(ex.contrast) :
                  ChannelFails(channel_of(ex.contrast, ChannelNames[j]),
                               ChannelThreshold(ex, j)) }
          IN  /\ \A j \in AbsentChannels(ex.contrast) :
                    worst[j] = NoRatio /\ type[j] = None /\ ~ReasonGiven(v, j)
              /\ Len(v.reasons) = Count(failing)
              /\ v.is_vulnerable <=> failing # {}
    /\ call.fn = "cvd_only_flag" =>
          (~Measurable(channel_of(call.example.contrast, call.channel)) => ret.value = FALSE)
    /\ call.fn = "_collect_cvd_failures" =>
          \A j \in AbsentChannels(call.contrast) :
              \A i \in 1..Len(ret.value) : ret.value[i].channel # ShortNames[j]
    /\ call.fn = "summarize" =>
          LET gs == call.site_result.groups
              v == ret.value
          IN  /\ v.unique_style_groups = Len(gs)
              /\ v.vulnerable_groups_text
                    <= Count({ i \in 1..Len(gs) : 1 \notin AbsentChannels(gs[i].contrast) })
              /\ v.vulnerable_groups_indicator
                    <= Count({ i \in 1..Len(gs) :
                                 {2, 3} \ AbsentChannels(gs[i].contrast) # {} })
              /\ Len(v.top_vulnerable_examples)
                    <= Count({ i \in 1..Len(gs) : AbsentChannels(gs[i].contrast) # 1..3 })
    /\ call.fn = "compute_cvi" =>
          \A i \in 1..Len(ret.value) :
              \E s \in 1..Len(call.data.sites) :
                  LET gs == groups_of(call.data.sites[s].blob)
                  IN  /\ call.data.sites[s].name = ret.value[i].site
                      /\ ret.value[i].total_styles = Len(gs)
                      /\ ret.value[i].total_vulnerable
                            <= Count({ k \in 1..Len(gs) : AbsentChannels(gs[k].contrast) # 1..3 })

\* a token without text contrast whose border fails: one reason, that of the border
C8_Witness ==
    /\ call.fn = "classify_failure"
    /\ 1 \in AbsentChannels(call.example.contrast)
    /\ 3 \in AbsentChannels(call.example.contrast)
    /\ ret.value.border_worst # NoRatio
    /\ ret.value.border_worst < 300
    /\ Len(ret.value.reasons) = 1
    /\ ret.value.is_vulnerable

(***************************************************************************)
(* C9: the reasons of classify_failure stand in the order text, border,    *)
(* outline, at most one for a channel, and each names the threshold        *)
(* applied, the worst ratio and the vision type that produced it.          *)
(***************************************************************************)
ExpectedReason(ex, j) ==
    LET c == channel_of(ex.contrast, ChannelNames[j])
        thr == ChannelThreshold(ex, j)
    IN  IF Measurable(c) /\ ChannelFails(c, thr)
        THEN << reason(ShortNames[j], thr, MinRatio(c), EarliestTypeOfMin(c)) >>
        ELSE <<>>

C9_ReasonsInOrder ==
    call.fn = "classify_failure" =>
        /\ ret.value.reasons
              = ExpectedReason(call.example, 1) \o ExpectedReason(call.example, 2)
                \o ExpectedReason(call.example, 3)
        /\ Len(ret.value.reasons) <= 3

\* all three channels fail, under different vision types
C9_Witness ==
    /\ call.fn = "classify_failure"
    /\ ret.value.reasons =
          << "text<4.5 (worst 3.9 @ protanopia)",
             "border<3.0 (worst 2.5 @ normal)",
             "outline<3.0 (worst 2.8 @ tritanopia)" >>

(***************************************************************************)
(* C10, as claimed: for a site without error and with at least one token   *)
(* the cvi equals the number of tokens with a CVD-only-vulnerable channel  *)
(* divided by the number of tokens, a token counted once; so 0 <= cvi <= 1 *)
(* and total_vulnerable <= total_styles.                                   *)
(***************************************************************************)
\* the sites that get a row, in the order of the document
RECURSIVE SitesWithTokens(_)
SitesWithTokens(sites) ==
    IF sites = <<>> THEN <<>>
    ELSE (IF "error" \notin DOMAIN Head(sites).blob /\ groups_of(Head(sites).blob) # <<>>
          THEN <<Head(sites)>> ELSE <<>>)
         \o SitesWithTokens(Tail(sites))

VulnerableTokens(gs) == Count({ k \in 1..Len(gs) : TokenCvdOnly(gs[k]) })

RowsCountTokens ==
    LET sites == SitesWithTokens(call.data.sites)
    IN  /\ Len(ret.value) = Len(sites)
        /\ \A i \in 1..Len(sites) :
              LET gs == groups_of(sites[i].blob)
                  row == ret.value[i]
              IN  /\ row.site = sites[i].name
                  /\ row.total_styles = Len(gs)
                  /\ row.total_vulnerable = VulnerableTokens(gs)
                  /\ row.total_vulnerable <= row.total_styles
                  /\ 0 <= row.cvi /\ row.cvi <= 1000

C10_Claimed_CviIsExactQuotient ==
    call.fn = "compute_cvi" =>
        /\ RowsCountTokens
        /\ \A i \in 1..Len(ret.value) :
              ret.value[i].cvi * ret.value[i].total_styles
                  = 1000 * ret.value[i].total_vulnerable

(***************************************************************************)
(* C10, amended: the cvi equals that quotient rounded to three decimal     *)
(* places (the thousandth nearest to it), a token counted once; so         *)
(* 0 <= cvi <= 1 and total_vulnerable <= total_styles.                     *)
(***************************************************************************)
C10_CviIsRoundedQuotient ==
    call.fn = "compute_cvi" =>
        /\ RowsCountTokens
        /\ \A i \in 1..Len(ret.value) :
              LET row == ret.value[i]
                  diff == row.cvi * row.total_styles - 1000 * row.total_vulnerable
              IN  /\ 2 * diff <= row.total_styles
                  /\ -2 * diff <= row.total_styles

\* one token of three is vulnerable, in two of its channels: cvi 0.333
C10_Witness ==
    /\ call.fn = "compute_cvi"
    /\ \E i \in 1..Len(ret.value) :
          /\ ret.value[i].total_styles = 3
          /\ ret.value[i].total_vulnerable = 1
          /\ ret.value[i].cvi = 333
          /\ \E g \in Range(groups_of(call.data.sites[1].blob)) :
                Len(_collect_cvd_failures(g.contrast,
                        threshold_for_font(g.fontSize, g.fontWeight))) = 2

(***************************************************************************)
(* C11: a site with zero tokens produces no row in the output of           *)
(* compute_cvi: no cvi value (in particular not 0) and no risk category is *)
(* reported for it; every row is the row of a site with at least one token.*)
(***************************************************************************)
RowsOfSite(rows, name) == { i \in 1..Len(rows) : rows[i].site = name }

C11_ZeroTokenSiteHasNoRow ==
    call.fn = "compute_cvi" =>
        /\ \A i \in 1..Len(call.data.sites) :
              groups_of(call.data.sites[i].blob) = <<>>
                  => RowsOfSite(ret.value, call.data.sites[i].name) = {}
        /\ \A j \in 1..Len(ret.value) : ret.value[j].total_styles >= 1

\* two sites scanned without error: the first has tokens and gets a row, the
\* second has none and gets no row
C11_Witness ==
    /\ call.fn = "compute_cvi"
    /\ Len(call.data.sites) = 2
    /\ "error" \notin DOMAIN call.data.sites[2].blob
    /\ groups_of(call.data.sites[2].blob) = <<>>
    /\ groups_of(call.data.sites[1].blob) # <<>>
    /\ Len(ret.value) = 1
    /\ ret.value[1].site = call.data.sites[1].name

(***************************************************************************)
(* C12, as claimed: for a site with v CVD-only-vulnerable tokens out of    *)
(* n >= 1 tokens the risk category is the first match of v/n = 0 Fully     *)
(* Accessible, v/n <= 0.05 Minor Risk, v/n <= 0.15 Moderate Risk,          *)
(* v/n <= 0.30 High Risk, otherwise Critical Risk; so the category is      *)
(* Fully Accessible if and only if no token is CVD-only-vulnerable.        *)
(***************************************************************************)
CategoryOfQuotient(v, n) ==
    IF v = 0 THEN "Fully Accessible"
    ELSE IF 100 * v <= 5 * n THEN "Minor Risk"
    ELSE IF 100 * v <= 15 * n THEN "Moderate Risk"
    ELSE IF 100 * v <= 30 * n THEN "High Risk"
    ELSE "Critical Risk"

C12_Claimed_CategoryOfQuotient ==
    call.fn = "compute_cvi" =>
        LET sites == SitesWithTokens(call.data.sites)
        IN  /\ Len(ret.value) = Len(sites)
            /\ \A i \in 1..Len(sites) :
                  LET gs == groups_of(sites[i].blob)
                  IN  /\ ret.value[i].category
                            = CategoryOfQuotient(VulnerableTokens(gs), Len(gs))
                      /\ (ret.value[i].category = "Fully Accessible")
                            <=> (VulnerableTokens(gs) = 0)

(***************************************************************************)
(* C13: threshold_for_font returns 3.0 if the size is at least 24px, or if *)
(* the weight is at least 700 and the size at least 18.67px, and 4.5       *)
(* otherwise; a size that is not a pixel number counts as 0px and gives    *)
(* 4.5. (24px, 400) gives 3.0, (16px, 400) 4.5, (18.67px, 700) 3.0 and     *)
(* (18px, 700) 4.5.                                                        *)
(***************************************************************************)
\* the pixel number a size string states, in hundredths; 0 if it states none
PixelsOf(font_size) ==
    IF font_size \in UnparsableSizes THEN 0 ELSE PxTable[font_size]

\* the weight a string states; a string that is not a number counts as 400
WeightOf(font_weight) ==
    IF font_weight \in UnparsableWeights THEN 400 ELSE WeightTable[font_weight]

ThresholdPolicy(font_size, font_weight) ==
    IF \/ PixelsOf(font_size) >= 2400
       \/ WeightOf(font_weight) >= 700 /\ PixelsOf(font_size) >= 1867
    THEN 300 ELSE 450

C13_ThresholdPolicy ==
    /\ call.fn = "threshold_for_font" =>
          /\ ret.value = ThresholdPolicy(call.font_size, call.font_weight)
          /\ call.font_size \in UnparsableSizes => ret.value = 450
          /\ (call.font_size = "24px" /\ call.font_weight = "400") => ret.value = 300
          /\ (call.font_size = "16px" /\ call.font_weight = "400") => ret.value = 450
          /\ (call.font_size = "18.67px" /\ call.font_weight = "700") => ret.value = 300
          /\ (call.font_size = "18px" /\ call.font_weight = "700") => ret.value = 450

\* bold text of 18.67px: the relaxed threshold, by the weight alone
C13_Witness ==
    /\ call.fn = "threshold_for_font"
    /\ call.font_size = "18.67px"
    /\ call.font_weight = "700"
    /\ ret.value = 300

(***************************************************************************)
(* C14, as claimed: the rollup counts of summarize follow the threshold    *)
(* policy of report.py: for every token the text threshold summarize       *)
(* applies equals threshold_for_font(fontSize, fontWeight), so             *)
(* vulnerable_groups_text is the number of tokens whose text channel fails *)
(* by rule 2 and cvd_only_fail_text the number of tokens whose text        *)
(* channel is CVD-only-vulnerable by rule 3, as report.py decides them.    *)
(***************************************************************************)
TextChannel(g) == channel_of(g.contrast, "text_on_bg")

C14_Claimed_RollupFollowsPolicy ==
    call.fn = "summarize" =>
        LET gs == call.site_result.groups
        IN  /\ \A k \in 1..Len(gs) :
                  summarize_threshold_for_font(gs[k].fontSize)
                      = threshold_for_font(gs[k].fontSize, gs[k].fontWeight)
            /\ ret.value.vulnerable_groups_text
                  = Count({ k \in 1..Len(gs) :
                              ChannelFails(TextChannel(gs[k]), ChannelThreshold(gs[k], 1)) })
            /\ ret.value.cvd_only_fail_text
                  = Count({ k \in 1..Len(gs) :
                              CvdOnlyVulnerable(TextChannel(gs[k]),
                                                ChannelThreshold(gs[k], 1)) })

(***************************************************************************)
(* The colour strings of the model by their syntax, and the triple each    *)
(* string states that is, apart from case and outer blanks, one colour in  *)
(* rgb(...) or rgba(...) syntax: the three numbers cut to integers and     *)
(* brought into 0..255.                                                    *)
(***************************************************************************)
StatedTriple ==
    ("rgb(0, 0, 0)" :> << 0, 0, 0 >>)
    @@ ("rgb(255, 255, 255)" :> << 255, 255, 255 >>)
    @@ ("rgb(118, 118, 118)" :> << 118, 118, 118 >>)
    @@ ("rgb(255, 0, 0)" :> << 255, 0, 0 >>)
    @@ ("rgb(0, 0, 255)" :> << 0, 0, 255 >>)
    @@ ("rgb(0, 128, 0)" :> << 0, 128, 0 >>)
    @@ ("rgba(255, 0, 0, 0.5)" :> << 255, 0, 0 >>)
    @@ ("rgba(0, 0, 0, 1)" :> << 0, 0, 0 >>)
    @@ ("RGB(255,0,0)" :> << 255, 0, 0 >>)
    @@ (" rgb( 0 , 128 , 0 ) " :> << 0, 128, 0 >>)
    @@ ("rgb(300, -20, 127.9)" :> << 255, 0, 127 >>)
    @@ ("rgb(1.9, -0.5, +3)" :> << 1, 0, 3 >>)

ZeroAlpha ==
    { "rgba(0, 0, 0, 0)", "rgba(10, 20, 30, 0.0)", "rgba(12, 34, 56, .0)",
      "rgba(7, 8, 9, -0)" }

TransparentLiteral == { "transparent", " Transparent " }

\* a list of two colours is not a colour, though each of its parts is one;
\* FirstOfList gives the first colour of the list
FirstOfList == ("rgb(0, 0, 0) rgb(255, 0, 0)" :> << 0, 0, 0 >>)

OtherSyntax ==
    { "#ff0000", "#fff", "red", "black", "hsl(0, 100%, 50%)", "color(srgb 1 0 0)",
      "", None } \cup DOMAIN FirstOfList

\* compute_group_contrasts has no colour for the string: it states no triple,
\* and it is not a list, for which the parser answers with the first colour
\* (C16)
Unparsable(color) == color \notin DOMAIN StatedTriple \cup DOMAIN FirstOfList

(***************************************************************************)
(* C15: each of the three channels compute_group_contrasts returns is      *)
(* either null, when the foreground or the background colour is            *)
(* unparsable, or holds a numeric ratio for all four vision types; a       *)
(* channel with some of the vision types only is never produced.           *)
(***************************************************************************)
ForegroundOf(group, channel) ==
    CASE channel = "text_on_bg" -> group.textColor
      [] channel = "border_on_bg" -> group.borderColor
      [] channel = "outline_on_bg" -> group.outlineColor

C15_ChannelFullOrAbsent ==
    call.fn = "compute_group_contrasts" =>
        /\ DOMAIN ret.value = { ChannelNames[j] : j \in 1..3 }
        /\ \A channel \in DOMAIN ret.value :
              LET c == ret.value[channel]
              IN  IF \/ Unparsable(ForegroundOf(call.group, channel))
                     \/ Unparsable(call.group.backgroundColor)
                  THEN c = <<>>
                  ELSE /\ DOMAIN c = TypeSet
                       /\ \A t \in TypeSet : c[t] # NoRatio /\ c[t] \in Nat

\* a token with a full text channel and two absent channels, its border fully
\* transparent and its outline the literal transparent
C15_Witness ==
    /\ call.fn = "compute_group_contrasts"
    /\ call.group.borderColor \in ZeroAlpha
    /\ call.group.outlineColor \in TransparentLiteral
    /\ DOMAIN ret.value["text_on_bg"] = TypeSet
    /\ ret.value["border_on_bg"] = <<>>
    /\ ret.value["outline_on_bg"] = <<>>

(***************************************************************************)
(* C16, as claimed: parse_css_color_to_rgb returns a triple only for a     *)
(* string in rgb(...) or rgba(...) syntax whose alpha, if given, is not 0, *)
(* and then the triple the string states; for the literal transparent, for *)
(* an rgba with alpha 0 and for every other syntax (hex, named colours,    *)
(* hsl, a list of colours, empty or missing value) it returns None and     *)
(* never a default colour. The parser looks for the pattern with           *)
(* _RGBA_RE.search and does not ask that the pattern is the whole string:  *)
(* the list "rgb(0, 0, 0) rgb(255, 0, 0)" comes back as (0, 0, 0).         *)
(***************************************************************************)
C16_Claimed_OnlyRgbSyntaxParses ==
    call.fn = "parse_css_color_to_rgb" =>
        /\ ret.value # NoRgb =>
              /\ call.color \in DOMAIN StatedTriple
              /\ ret.value = StatedTriple[call.color]
        /\ call.color \in TransparentLiteral \cup ZeroAlpha \cup OtherSyntax
              => ret.value = NoRgb

\* what the parser keeps of the statement: a string that is one rgb(...) or
\* rgba(...) colour gives the triple it states, a list the triple of its first
\* colour, and no other string of the model gives a triple
C16_FirstRgbGroupParses ==
    call.fn = "parse_css_color_to_rgb" =>
        /\ call.color \in DOMAIN StatedTriple => ret.value = StatedTriple[call.color]
        /\ call.color \in DOMAIN FirstOfList => ret.value = FirstOfList[call.color]
        /\ call.color \notin DOMAIN StatedTriple \cup DOMAIN FirstOfList
              => ret.value = NoRgb

(***************************************************************************)
(* C17: contrast_ratio is symmetric, contrast_ratio(a, b) equals           *)
(* contrast_ratio(b, a) for every pair of triples, and it returns null     *)
(* whenever one of its arguments is null.                                  *)
(***************************************************************************)
C17_Symmetric ==
    call.fn = "contrast_ratio" =>
        /\ ret.value = contrast_ratio(call.rgb2, call.rgb1)
        /\ (call.rgb1 = NoRgb \/ call.rgb2 = NoRgb) => ret.value = NoRatio

\* the darker colour given first: 5.25 for red on black, as for black on red
C17_Witness ==
    /\ call.fn = "contrast_ratio"
    /\ call.rgb1 = Black
    /\ call.rgb2 = Red
    /\ ret.value = 525
    /\ contrast_ratio(Red, Black) = 525

(***************************************************************************)
(* C18: contrast_ratio(white, black) is 21.0, contrast_ratio(c, c) is 1.0  *)
(* for every colour c, and every ratio that is not null in the result of   *)
(* compute_group_contrasts lies in [1, 21].                                *)
(***************************************************************************)
InRange(v) == 100 <= v /\ v <= 2100

C18_RatioRange ==
    /\ call.fn = "contrast_ratio" =>
          /\ ({call.rgb1, call.rgb2} = {White, Black}) => ret.value = 2100
          /\ (call.rgb1 = call.rgb2 /\ call.rgb1 # NoRgb) => ret.value = 100
          /\ ret.value # NoRatio => InRange(ret.value)
    /\ call.fn = "compute_group_contrasts" =>
          \A channel \in DOMAIN ret.value :
              \A t \in DOMAIN ret.value[channel] : InRange(ret.value[channel][t])

\* black text on white: 21.0 for normal vision, stored in the result
C18_Witness ==
    /\ call.fn = "compute_group_contrasts"
    /\ call.group.textColor = "rgb(0, 0, 0)"
    /\ call.group.backgroundColor = "rgb(255, 255, 255)"
    /\ ret.value["text_on_bg"]["normal"] = 2100

(***************************************************************************)
(* C19: over any sequence of calls in one run the simulator is invoked at  *)
(* most once for each pair of colour and deficiency; a later call with the *)
(* same pair returns the value the first call stored; and the cache only   *)
(* grows: an entry once stored is never removed or overwritten.            *)
(***************************************************************************)
InvokedOncePerKey ==
    /\ DOMAIN invocations = DOMAIN _CVD_CACHE
    /\ \A key \in DOMAIN invocations : invocations[key] = 1

CacheOnlyGrows ==
    \A key \in DOMAIN _CVD_CACHE :
        key \in DOMAIN _CVD_CACHE' /\ _CVD_CACHE'[key] = _CVD_CACHE[key]

CachedValueReturned ==
    (/\ call'.fn = "simulate_rgb"
     /\ << call'.rgb, lower_strip(call'.deficiency) >> \in DOMAIN _CVD_CACHE)
        => /\ ret'.value = _CVD_CACHE[<< call'.rgb, lower_strip(call'.deficiency) >>]
           /\ ~ret'.raised
           /\ invocations' = invocations
           /\ _CVD_CACHE' = _CVD_CACHE

C19_CacheOncePerKey ==
    []InvokedOncePerKey /\ [][CacheOnlyGrows /\ CachedValueReturned]_vars

\* the text and the border of a token are black on white: black and white are
\* simulated three times each, the simulator is invoked once for each pair
C19_Witness ==
    /\ call.fn = "compute_group_contrasts"
    /\ call.group.textColor = "rgb(0, 0, 0)"
    /\ call.group.borderColor = "rgb(0, 0, 0)"
    /\ call.group.outlineColor = "rgb(0, 0, 0)"
    /\ \A d \in DOMAIN DEFICIENCY_MAP :
          /\ invocations[<< Black, d >>] = 1
          /\ invocations[<< White, d >>] = 1
    /\ ret.value["text_on_bg"] = ret.value["border_on_bg"]
    /\ simulator = "offset"

(***************************************************************************)
(* C20, as claimed: every call of simulate_rgb with a deficiency kind      *)
(* other than protanopia, deuteranopia or tritanopia fails with an error,  *)
(* whatever the colour argument is, returns no simulated colour and leaves *)
(* the cache unchanged. The kind is read as the code reads it, in lower    *)
(* case and without the blanks around it.                                  *)
(***************************************************************************)
UnknownKind(deficiency) == lower_strip(deficiency) \notin DOMAIN DEFICIENCY_MAP

UnknownKindRaises ==
    (call.fn = "simulate_rgb" /\ UnknownKind(call.deficiency))
        => ret.raised /\ ret.value = NoRgb

UnknownKindKeepsCache ==
    (call'.fn = "simulate_rgb" /\ UnknownKind(call'.deficiency))
        => _CVD_CACHE' = _CVD_CACHE

C20_Claimed_UnknownKindFails ==
    []UnknownKindRaises /\ [][UnknownKindKeepsCache]_vars

(***************************************************************************)
(* C21: a site whose scan reported an error produces no row in compute_cvi *)
(* and no summary counts in the site list of main, and its output is never *)
(* the output of a scanned site without CVD-only-vulnerable tokens.        *)
(* find_vulnerable_components gives an error site the empty list, which is *)
(* what it gives a scanned site none of whose tokens is vulnerable.        *)
(***************************************************************************)
IsErrorSite(site) == "error" \in DOMAIN site.blob

\* the site of that name, scanned, with one token that passes under every vision
CleanSite(name) ==
    [ name |-> name, blob |-> ResultBlob(SiteResult("https://" \o name \o "/", <<SafeGroup>>)) ]

C21_Claimed_ErrorSiteDistinguishable ==
    call.fn \in {"compute_cvi", "main", "find_vulnerable_components"}
    => \A j \in 1..Len(call.data.sites) :
          LET site == call.data.sites[j]
          IN  IsErrorSite(site)
              => /\ ret.fn = "compute_cvi" => RowsOfSite(ret.value, site.name) = {}
                 /\ (ret.fn = "main" /\ ~ret.value.raised)
                    => DOMAIN ret.value.sites[j] = {"site", "error"}
                 /\ ret.fn = "find_vulnerable_components"
                    => ret.value[j] # find_vulnerable_components(
                                          [ sites |-> <<CleanSite(site.name)>> ])[1]

\* the two parts of C21 that the program keeps: no row and no summary counts
C21_ErrorSiteHasNoRowNoCounts ==
    call.fn \in {"compute_cvi", "main"}
    => \A j \in 1..Len(call.data.sites) :
          LET site == call.data.sites[j]
          IN  IsErrorSite(site)
              => /\ ret.fn = "compute_cvi" => RowsOfSite(ret.value, site.name) = {}
                 /\ (ret.fn = "main" /\ ~ret.value.raised)
                    => DOMAIN ret.value.sites[j] = {"site", "error"}

(***************************************************************************)
(* C22: in a run of main over a list of urls a site is a key of            *)
(* output["sites"], the domain of the url without a leading www., and two  *)
(* urls of one domain are two visits of one site. A visit that fails does  *)
(* not end the loop and leaves the entries of all other sites as they are; *)
(* it puts the error in the place of an entry its own site had from an     *)
(* earlier visit, a result too. Every site visited has exactly one entry,  *)
(* that of its last visit, either a result with its summary or an error,   *)
(* never both; when main returns and no KeyboardInterrupt ended the loop   *)
(* every url was visited, and the file holds these entries.                *)
(***************************************************************************)
VisitedKeys == { domain_key(urls[i].url) : i \in 1..visited }

\* the last url visited whose site is name
LastVisit(name) ==
    urls[CHOOSE i \in 1..visited :
            /\ domain_key(urls[i].url) = name
            /\ \A k \in (i + 1)..visited : domain_key(urls[k].url) # name]

IsResultEntry(blob) == DOMAIN blob = {"result", "summary"}
IsErrorEntry(blob) == DOMAIN blob = {"error", "url"}

\* the places of the site name in the entries sites
PlacesOf(sites, name) == { j \in 1..Len(sites) : sites[j].name = name }

OneEntryPerSite ==
    /\ \A name \in VisitedKeys : Cardinality(PlacesOf(output, name)) = 1
    /\ \A j \in 1..Len(output) :
          LET e == output[j]
          IN  /\ e.name \in VisitedKeys
              /\ IsResultEntry(e.blob) # IsErrorEntry(e.blob)
              /\ IsResultEntry(e.blob)
                 => /\ LastVisit(e.name).page.outcome = "ok"
                    /\ e.blob.result.url = LastVisit(e.name).url
                    /\ e.blob.summary.url = LastVisit(e.name).url
              /\ IsErrorEntry(e.blob) => e.blob.url = LastVisit(e.name).url
              /\ LastVisit(e.name).page.outcome = "raise" => IsErrorEntry(e.blob)
    /\ (main_pc = "saved" /\ ~call.interrupted) => visited = Len(urls)
    /\ main_pc = "saved" => json_file = WholeFile(output_document)
    /\ json_file.state = "whole" => json_file.data.sites = output

\* a turn of the loop that stores an entry stores it under the key of its url:
\* in the place of the entry the key had, whatever that entry was, or else
\* behind all entries; every entry of another key stays as and where it is
VisitStoresOneKey ==
    IF visited' = visited + 1
    THEN LET u == urls[visited + 1]
             key == domain_key(u.url)
         IN  /\ \A j \in 1..Len(output) : output[j].name # key => output'[j] = output[j]
             /\ IF PlacesOf(output, key) # {}
                THEN /\ Len(output') = Len(output)
                     /\ PlacesOf(output', key) = PlacesOf(output, key)
                ELSE /\ Len(output') = Len(output) + 1
                     /\ PlacesOf(output', key) = { Len(output') }
             /\ \A j \in PlacesOf(output', key) :
                   /\ u.page.outcome = "raise"
                      => output'[j].blob = [ error |-> "Timeout 60000ms exceeded",
                                             url |-> u.url ]
                   /\ IsResultEntry(output'[j].blob) => output'[j].blob.result.url = u.url
                   /\ IsErrorEntry(output'[j].blob) => output'[j].blob.url = u.url
    ELSE output' = output

\* the turn that stores an error is followed by the turn of the next url
FailureKeepsLoop ==
    (/\ visited' = visited + 1
     /\ \E j \in 1..Len(output') :
           /\ output'[j].name = domain_key(urls[visited + 1].url)
           /\ IsErrorEntry(output'[j].blob))
    => /\ main_pc' = "loop"
       /\ json_file' = NoFile

C22_SiteFailuresIsolated ==
    []OneEntryPerSite /\ [][VisitStoresOneKey /\ FailureKeepsLoop]_vars

\* the scan of the first site failed, the second site was scanned and stored,
\* main returned and the file holds both entries
C22_Witness ==
    /\ main_pc = "saved"
    /\ ~call.interrupted
    /\ urls[1].page.outcome = "raise"
    /\ Len(output) = 2
    /\ IsErrorEntry(output[1].blob)
    /\ IsResultEntry(output[2].blob)
    /\ output[2].blob.result.unique_style_groups > 0
    /\ json_file.state = "whole"
    /\ json_file.data.sites = output

(***************************************************************************)
(* C22, as claimed, with the urls of the list, no two of them equal, as    *)
(* the sites: a visit that fails leaves every entry stored before it as it *)
(* is, and when main returns and no KeyboardInterrupt ended the loop there *)
(* is one entry for every url. The run over https://a.com/ and             *)
(* https://www.a.com/login, the second of which fails, ends with the one   *)
(* entry a.com, an error: the result of the first visit is gone.           *)
(***************************************************************************)
DistinctUrls == \A i, k \in 1..Len(urls) : i # k => urls[i].url # urls[k].url

FailureKeepsEntries ==
    (DistinctUrls /\ visited' = visited + 1 /\ urls[visited + 1].page.outcome = "raise")
    => \A j \in 1..Len(output) : output'[j] = output[j]

OneEntryPerUrl ==
    (DistinctUrls /\ main_pc = "saved" /\ ~call.interrupted)
    => /\ Len(output) = Len(urls)
       /\ \A j \in 1..Len(output) :
             IsResultEntry(output[j].blob) # IsErrorEntry(output[j].blob)

C22_Claimed_SiteFailuresIsolated == []OneEntryPerUrl /\ [][FailureKeepsEntries]_vars

(***************************************************************************)
(* C23: each ranked list of vulnerable tokens, the list of a site in       *)
(* find_vulnerable_components and top_vulnerable_examples of summarize, is *)
(* sorted by non-increasing element count, and tokens of equal count keep  *)
(* the order in which they were discovered.                                *)
(***************************************************************************)
NonIncreasingCounts(list) ==
    \A a, b \in 1..Len(list) : a < b => list[a].count >= list[b].count

\* the entry e of a ranked list was made from the token g
ComponentFrom(e, g) ==
    /\ e.count = g.count
    /\ e.fontSize = g.fontSize
    /\ e.category = g.category
    /\ e.state = g.state
    /\ e.sample_tags = g.sampleTags
    /\ e.failures # <<>>

ExampleFrom(e, g) ==
    /\ e.count = g.count
    /\ e.fontSize = g.fontSize
    /\ e.category = g.category
    /\ e.state = g.state
    /\ e.contrast = g.contrast

\* the entries of list can be traced to distinct tokens of gs so that entries
\* of equal count stand in the order of their tokens; From is ComponentFrom
\* or ExampleFrom
TiesInDiscoveryOrder(list, gs, From(_, _)) ==
    \E f \in [ 1..Len(list) -> 1..Len(gs) ] :
        /\ \A a, b \in 1..Len(list) : a # b => f[a] # f[b]
        /\ \A a \in 1..Len(list) : From(list[a], gs[f[a]])
        /\ \A a, b \in 1..Len(list) :
              (a < b /\ list[a].count = list[b].count) => f[a] < f[b]

C23_RankedListsSorted ==
    /\ ret.fn = "find_vulnerable_components"
       => \A j \in 1..Len(ret.value) :
             LET list == ret.value[j].vulnerable
                 gs == groups_of(call.data.sites[j].blob)
             IN  /\ NonIncreasingCounts(list)
                 /\ TiesInDiscoveryOrder(list, gs, ComponentFrom)
    /\ ret.fn = "summarize"
       => LET list == ret.value.top_vulnerable_examples
              gs == call.site_result.groups
          IN  /\ NonIncreasingCounts(list)
              /\ TiesInDiscoveryOrder(list, gs, ExampleFrom)

\* a site whose tokens were discovered with counts 2, 5, 5: the list ranks the
\* two tokens of count 5 first, in their order, then the token of count 2
C23_Witness ==
    /\ ret.fn = "find_vulnerable_components"
    /\ LET list == ret.value[1].vulnerable
           gs == groups_of(call.data.sites[1].blob)
       IN  /\ Len(gs) = 3
           /\ Len(list) = 3
           /\ gs[1].count = 2 /\ gs[2].count = 5 /\ gs[3].count = 5
           /\ gs[2].fontSize = "16px" /\ gs[3].fontSize = "24px"
           /\ list[1].fontSize = "16px" /\ list[1].count = 5
           /\ list[2].fontSize = "24px" /\ list[2].count = 5
           /\ list[3].count = 2

(***************************************************************************)
(* C24: the analysis of the same input gives the same tokens, contrasts,   *)
(* verdicts, CVI values and risk categories whatever the cache holds when  *)
(* it starts. In a run of main the cache a scan starts with is the one the *)
(* scans before it left: the result stored for a site equals the result of *)
(* scan_url on its page with an empty cache, two sites that show the same  *)
(* page get the same result and summary, and report.py gives them the same *)
(* CVI row and the same vulnerable components.                             *)
(***************************************************************************)
ColdState == [ simulator |-> simulator, cache |-> <<>>, invocations |-> <<>> ]

WithoutUrl(r) == [ r EXCEPT !.url = "" ]

WithoutSite(rows, name) == { [ rows[i] EXCEPT !.site = "" ] : i \in RowsOfSite(rows, name) }

\* the sites j and k of output were both scanned, and showed the same page
SameInput(j, k) ==
    /\ IsResultEntry(output[j].blob)
    /\ IsResultEntry(output[k].blob)
    /\ LastVisit(output[j].name).page = LastVisit(output[k].name).page

C24_SameInputSameResult ==
    /\ \A j \in 1..Len(output) :
          IsResultEntry(output[j].blob)
          => output[j].blob.result
             = scan_url(ColdState, LastVisit(output[j].name).page,
                        LastVisit(output[j].name).url).value
    /\ \A j, k \in 1..Len(output) :
          SameInput(j, k)
          => /\ WithoutUrl(output[j].blob.result) = WithoutUrl(output[k].blob.result)
             /\ WithoutUrl(output[j].blob.summary) = WithoutUrl(output[k].blob.summary)
             /\ (ret.fn = "report" /\ ~ret.raised)
                => /\ WithoutSite(ret.cvi_results, output[j].name)
                      = WithoutSite(ret.cvi_results, output[k].name)
                   /\ ret.vulnerable_components[j].vulnerable
                      = ret.vulnerable_components[k].vulnerable

\* two sites showed the same page, with a CVD-only-vulnerable token: the second
\* scan found every colour in the cache, and both sites got the same CVI row
C24_Witness ==
    /\ ret.fn = "report"
    /\ ~ret.raised
    /\ call.file = WholeFile(output_document)
    /\ Len(output) = 2
    /\ SameInput(1, 2)
    /\ output[1].name # output[2].name
    /\ Len(ret.cvi_results) = 2
    /\ ret.cvi_results[1].cvi = 500
    /\ ret.cvi_results[2].cvi = 500
    /\ \A key \in DOMAIN invocations : invocations[key] = 1
    /\ DOMAIN _CVD_CACHE # {}

(***************************************************************************)
(* C25: classify maps (tag, role) into a closed set of categories, the tag *)
(* first (button, a, input/select/textarea, nav, label, li, h1..h6, p),    *)
(* then the role (button, link, navigation, textbox, tab, checkbox,        *)
(* radio), else interactive_other or other. The statement as claimed: the  *)
(* base token of every kept element carries a category the claimed mapping *)
(* allows. classify of ui_contrast_audit.py has no case for nav, label,    *)
(* li, the headings and p and no role navigation, so the list item of the  *)
(* long page lands in "interactive_other".                                 *)
(***************************************************************************)
ClaimedCategories(tag, role) ==
    LET t == lower(Or(tag, ""))
        r == lower(Or(role, ""))
    IN  CASE t = "button" -> { "button" }
          [] t = "a" -> { "link" }
          [] t \in { "input", "select", "textarea" } -> { "input" }
          [] t = "nav" -> { "navigation" }
          [] t = "label" -> { "label" }
          [] t = "li" -> { "listitem" }
          [] t \in { "h1", "h2", "h3", "h4", "h5", "h6" } -> { "heading" }
          [] t = "p" -> { "paragraph" }
          [] OTHER ->
                IF r \in { "button", "link", "navigation", "textbox",
                           "tab", "checkbox", "radio" }
                THEN { r }
                ELSE { "interactive_other", "other" }

C25_Claimed_ClassifyMapping ==
    \A i \in 1..Len(scanned) :
        IsKept(scanned[i])
        => \E c \in ClaimedCategories(scanned[i].base.tag, scanned[i].base.role) :
              HasKey(groups, style_key("interactive", c, "base", scanned[i].base))

(***************************************************************************)
(* C26: in a site scan the contrasts are computed in one batch after the   *)
(* last record was ingested. While records are merged no token has a       *)
(* contrast and compute_group_contrasts was not invoked; once the batch    *)
(* has begun no record is ingested any more, a turn changes nothing of a   *)
(* token but its contrast, and a token that has its contrast is left as it *)
(* is; at the return compute_group_contrasts was invoked exactly once for  *)
(* each token, in the order of discovery, and every token has a contrast.  *)
(***************************************************************************)
HasContrast(g) == "contrast" \in DOMAIN g

KeysOf(gs) == [ j \in 1..Len(gs) |-> gs[j].k ]

\* g2 is g1 but for the contrast
SameButContrast(g1, g2) ==
    /\ DOMAIN g1 \ { "contrast" } = DOMAIN g2 \ { "contrast" }
    /\ \A f \in DOMAIN g1 \ { "contrast" } : g1[f] = g2[f]

NoContrastWhileMerging ==
    pc = "loop"
    => /\ contrast_calls = <<>>
       /\ \A j \in 1..Len(groups) : ~HasContrast(groups[j].g)

OncePerTokenAtReturn ==
    pc = "done"
    => /\ contrast_calls = KeysOf(groups)
       /\ \A j \in 1..Len(groups) : HasContrast(groups[j].g)
       /\ Len(ret.value.groups) = Len(groups)
       /\ \A j \in 1..Len(groups) : ret.value.groups[j] = groups[j].g

BatchLeavesTokensAlone ==
    pc # "loop"
    => /\ scanned' = scanned
       /\ kept' = kept
       /\ error_state_captured' = error_state_captured
       /\ category_counts' = category_counts
       /\ KeysOf(groups') = KeysOf(groups)
       /\ \A j \in 1..Len(groups) :
             /\ SameButContrast(groups[j].g, groups'[j].g)
             /\ HasContrast(groups[j].g) => groups'[j].g = groups[j].g

C26_ContrastsInOneBatch ==
    /\ []NoContrastWhileMerging
    /\ []OncePerTokenAtReturn
    /\ [][BatchLeavesTokensAlone]_vars

\* a scan has returned two tokens, a base-state and an error-state one, of a
\* field seen twice: each got its contrast in its own turn after the loop
C26_Witness ==
    /\ pc = "done"
    /\ Len(scanned) = 2
    /\ Len(groups) = 2
    /\ groups[1].g.count = 2
    /\ groups[2].g.state = "error"
    /\ contrast_calls = KeysOf(groups)
    /\ HasContrast(groups[1].g)
    /\ HasContrast(groups[2].g)

\* the scan taken step by step returns what scan_url returns for the page
ScanStepsAgreeWithScanUrl ==
    pc = "done"
    => ret.value = scan_url([ simulator |-> simulator, cache |-> <<>>, invocations |-> <<>> ],
                            [ outcome |-> "ok", elements |-> scanned ], ScanUrl).value

(***************************************************************************)
(* C27: ingestion only creates or merges tokens. In every step of the loop *)
(* the tokens that exist keep their place and key and their count stays or *)
(* grows by exactly 1, and a token that appears has count 1; so the count  *)
(* of a token is the number of ingested records with its key, the counts   *)
(* of the base-state tokens sum to kept (elements_kept), those of the      *)
(* error-state tokens to error_state_captured (error_state_tokens_seen),   *)
(* and there are at most kept + error_state_captured tokens.               *)
(***************************************************************************)
RECURSIVE CountsInState(_, _)
CountsInState(gs, state) ==
    IF gs = <<>> THEN 0
    ELSE (IF Head(gs).g.state = state THEN Head(gs).g.count ELSE 0)
         + CountsInState(Tail(gs), state)

RECURSIVE RecordsWithKey(_, _)
RecordsWithKey(rs, k) ==
    IF rs = <<>> THEN 0
    ELSE (IF KeyOf(Head(rs)) = k THEN 1 ELSE 0) + RecordsWithKey(Tail(rs), k)

CountsAddUp ==
    /\ \A j \in 1..Len(groups) :
          groups[j].g.count = RecordsWithKey(Records(scanned), groups[j].k)
    /\ CountsInState(groups, "base") = kept
    /\ CountsInState(groups, "error") = error_state_captured
    /\ Len(groups) <= kept + error_state_captured

TokensOnlyCreatedOrMerged ==
    /\ Len(groups) <= Len(groups')
    /\ \A j \in 1..Len(groups) :
          /\ groups'[j].k = groups[j].k
          /\ groups'[j].g.count \in { groups[j].g.count, groups[j].g.count + 1 }
    /\ \A j \in (Len(groups) + 1)..Len(groups') : groups'[j].g.count = 1

C27_CountsOfIngestion == []CountsAddUp /\ [][TokensOnlyCreatedOrMerged]_vars

\* three fields were scanned: the first two share a base token and an error
\* token, the third created tokens of its own
C27_Witness ==
    /\ Len(scanned) = 3
    /\ kept = 3
    /\ error_state_captured = 3
    /\ Len(groups) = 4
    /\ groups[1].g.count = 2
    /\ groups[2].g.count = 2
    /\ groups[3].g.count = 1
    /\ groups[4].g.count = 1

(***************************************************************************)
(* C28: merging a record into a token that exists changes only the count,  *)
(* the three sample lists and the two accessibility counters of the token. *)
(* Layer, state, category and the eleven colour, font, border and outline  *)
(* fields (and every other field) stay as they were at creation, and they  *)
(* equal the fields of every record merged into the token.                 *)
(***************************************************************************)
MergedFields == { "count", "sampleLabels", "sampleTags", "sampleRoles", "a11y" }

\* the token g2 is g1 after the merge of records: the other fields are kept
FrameOfMerge(g1, g2) ==
    /\ DOMAIN g2 = DOMAIN g1
    /\ \A f \in DOMAIN g1 \ MergedFields : g2[f] = g1[f]
    /\ DOMAIN g2.a11y = { "required_examples", "aria_invalid_examples" }

MergeKeepsOtherFields ==
    \A j \in 1..Len(groups) : FrameOfMerge(groups[j].g, groups'[j].g)

TokenFieldsOfItsRecords ==
    LET rs == Records(scanned)
    IN  \A j \in 1..Len(groups) :
            \A a \in 1..Len(rs) :
                KeyOf(rs[a]) = groups[j].k => KeyFields(rs[a]) = TokenFields(groups[j].g)

C28_MergeFrame == []TokenFieldsOfItsRecords /\ [][MergeKeepsOtherFields]_vars

\* the second element has the style of the first but another label, another
\* resolved depth of the background and the required flag: it was merged, and
\* the token kept the depth of the first
C28_Witness ==
    /\ Len(scanned) = 2
    /\ Len(groups) = 1
    /\ groups[1].g.count = 2
    /\ IsKept(scanned[1])
    /\ IsKept(scanned[2])
    /\ scanned[1].base.bgResolvedDepth # scanned[2].base.bgResolvedDepth
    /\ groups[1].g.bgResolvedDepth = scanned[1].base.bgResolvedDepth
    /\ groups[1].g.sampleLabels # << scanned[1].base.label >>

(***************************************************************************)
(* C29: for every channel and threshold, cvd_only_flag true implies that   *)
(* the channel fails (its worst ratio is below the threshold); the         *)
(* converse does not hold. So in every site summary                        *)
(* cvd_only_fail_text <= vulnerable_groups_text <= unique_style_groups,    *)
(* the same for the indicator counts, and vulnerable_groups_indicator is   *)
(* the number of tokens whose border or outline fails: a token whose       *)
(* border and outline both fail is counted once.                           *)
(***************************************************************************)
IndicatorFails(g) ==
    \/ ChannelFails(channel_of(g.contrast, "border_on_bg"), 300)
    \/ ChannelFails(channel_of(g.contrast, "outline_on_bg"), 300)

BothIndicatorsFail(g) ==
    /\ ChannelFails(channel_of(g.contrast, "border_on_bg"), 300)
    /\ ChannelFails(channel_of(g.contrast, "outline_on_bg"), 300)

C29_CvdOnlyImpliesFailing ==
    /\ (ret.fn = "cvd_only_flag" /\ ret.value)
       => LET c == channel_of(call.example.contrast, call.channel)
          IN  /\ ChannelFails(c, call.threshold)
              /\ worst_case(c)[1] # NoRatio
              /\ worst_case(c)[1] < call.threshold
    /\ ret.fn = "summarize"
       => LET gs == call.site_result.groups
              s == ret.value
          IN  /\ s.cvd_only_fail_text <= s.vulnerable_groups_text
              /\ s.vulnerable_groups_text <= s.unique_style_groups
              /\ s.cvd_only_fail_indicator <= s.vulnerable_groups_indicator
              /\ s.vulnerable_groups_indicator <= s.unique_style_groups
              /\ s.vulnerable_groups_indicator
                 = Cardinality({ j \in 1..Len(gs) : IndicatorFails(gs[j]) })

\* a site with a token whose border and outline both fail under CVD only and
\* a token whose outline fails for every viewer: two vulnerable indicator
\* tokens, one of them CVD-only
C29_Witness ==
    /\ ret.fn = "summarize"
    /\ Len(call.site_result.groups) = 3
    /\ \E j \in 1..3 : BothIndicatorsFail(call.site_result.groups[j])
    /\ \E j \in 1..3 :
          /\ IndicatorFails(call.site_result.groups[j])
          /\ ~group_flags(call.site_result.groups[j]).cvd_only_indicator
    /\ ret.value.vulnerable_groups_indicator = 2
    /\ ret.value.cvd_only_fail_indicator = 1
    /\ ret.value.unique_style_groups = 3

\* a channel that fails for every viewer is not CVD-only-vulnerable
C29_FailingNotCvdOnly ==
    /\ ret.fn = "cvd_only_flag"
    /\ ~ret.value
    /\ ChannelFails(channel_of(call.example.contrast, call.channel), call.threshold)

(***************************************************************************)
(* C30: in scan_url an error-state token is created or incremented for an  *)
(* element only if the element was kept, is a form field, its error state  *)
(* was triggered and its re-extracted record has a non-empty borderColor,  *)
(* outlineColor or ariaInvalid that differs from the base record. A kept   *)
(* element adds exactly 1 to the count of one base-state token and at most *)
(* 1 to the count of one error-state token; a skipped element changes no   *)
(* token.                                                                  *)
(***************************************************************************)
\* the element of this step
StepElement == scanned'[Len(scanned')]

\* the tokens of the given state that this step created or changed
Touched(state) ==
    { j \in 1..Len(groups') :
        /\ groups'[j].g.state = state
        /\ j > Len(groups) \/ groups'[j] # groups[j] }

Added(state) == CountsInState(groups', state) - CountsInState(groups, state)

ErrorTokenOnlyForChangedField ==
    /\ Touched("error") # {} => ErrorRecorded(StepElement)
    /\ IsKept(StepElement)
       => /\ Cardinality(Touched("base")) = 1
          /\ Added("base") = 1
          /\ Cardinality(Touched("error")) <= 1
          /\ Added("error") = Cardinality(Touched("error"))
    /\ ~IsKept(StepElement)
       => /\ groups' = groups
          /\ kept' = kept
          /\ error_state_captured' = error_state_captured
          /\ category_counts' = category_counts

C30_ErrorTokenGuard == [][ErrorTokenOnlyForChangedField]_vars

\* a field whose error state was recorded, then a field whose error state
\* shows no change, then a skipped element: one error-state record and two
\* base-state records
C30_Witness ==
    /\ Len(scanned) = 3
    /\ ErrorRecorded(scanned[1])
    /\ IsKept(scanned[2])
    /\ scanned[2].base.tag = "INPUT"
    /\ scanned[2].click
    /\ scanned[2].reextract
    /\ ~ErrorRecorded(scanned[2])
    /\ ~IsKept(scanned[3])
    /\ error_state_captured = 1
    /\ kept = 2
    /\ CountsInState(groups, "error") = 1
    /\ CountsInState(groups, "base") = 2
====
